---- MODULE Spec2Model ----
(***************************************************************************)
(* A model of gocp's shared traversal core: walkGoFiles (file discovery,  *)
(* read, parse, visit), the position table (token.FileSet) the visitors    *)
(* resolve positions through, extractContext, and the analyzers built on   *)
(* them (findSymbols, findInitFunctions, analyzeDependencies).             *)
(*                                                                         *)
(* Strings are sequences of one-character strings, so that suffix,         *)
(* substring, split and trim are computed as the Go code computes them.    *)
(***************************************************************************)
EXTENDS Integers, Sequences, FiniteSets, TLC

\* ------------------------------------------------------------------ bounds

\* At most this many .go files of the directory are unreadable or unparsable.
MaxBad == 1
\* extractContext is explored on every source text up to this many bytes.
MaxSrcLen == 4
\* analyzeDependencies is explored on packages of at most this many imports.
MaxImports == 1

\* ----------------------------------------------------------------- strings

RECURSIVE Join(_, _)
\* strings.Join / filepath.Join of clean segments.
Join(ss, sep) ==
  IF ss = <<>> THEN <<>>
  ELSE IF Len(ss) = 1 THEN ss[1]
  ELSE ss[1] \o sep \o Join(Tail(ss), sep)

\* strings.HasSuffix
HasSuffix(s, suffix) ==
  /\ Len(s) >= Len(suffix)
  /\ SubSeq(s, Len(s) - Len(suffix) + 1, Len(s)) = suffix

\* strings.Contains
Contains(s, substr) ==
  \E i \in 0..(Len(s) - Len(substr)) : SubSeq(s, i + 1, i + Len(substr)) = substr

\* The byte order strings are compared in (the characters the model uses).
Alphabet == <<"\n", " ", ".", "/", "T", "_", "a", "b", "c", "d", "e", "g", "h", "i",
              "l", "m", "n", "o", "p", "r", "s", "t", "v", "x", "y">>

Ord(c) == CHOOSE i \in 1..Len(Alphabet) : Alphabet[i] = c

RECURSIVE StrLess(_, _)
\* Go's s < t on strings: bytewise lexicographic.
StrLess(s, t) ==
  IF t = <<>> THEN FALSE
  ELSE IF s = <<>> THEN TRUE
  ELSE IF Head(s) = Head(t) THEN StrLess(Tail(s), Tail(t))
  ELSE Ord(Head(s)) < Ord(Head(t))

\* ---------------------------------------------------------- extractContext

nl == "\n"

\* The bytes strings.TrimSpace removes, among the characters the model uses.
IsSpace(c) == c \in {" ", "\n"}

RECURSIVE SplitOn(_, _)
\* strings.Split(s, sep) for a one-byte separator: the pieces between its
\* occurrences, always at least one.
SplitOn(s, c) ==
  IF \A i \in 1..Len(s) : s[i] # c THEN <<s>>
  ELSE LET i == CHOOSE k \in 1..Len(s) : s[k] = c /\ \A j \in 1..(k - 1) : s[j] # c
       IN  <<SubSeq(s, 1, i - 1)>> \o SplitOn(SubSeq(s, i + 1, Len(s)), c)

\* strings.Split(s, "\n")
Split(s) == SplitOn(s, nl)

RECURSIVE TrimLeft(_)
TrimLeft(s) == IF s # <<>> /\ IsSpace(Head(s)) THEN TrimLeft(Tail(s)) ELSE s

RECURSIVE TrimRight(_)
TrimRight(s) ==
  IF s # <<>> /\ IsSpace(s[Len(s)]) THEN TrimRight(SubSeq(s, 1, Len(s) - 1)) ELSE s

\* strings.TrimSpace
TrimSpace(s) == TrimRight(TrimLeft(s))

\* start := pos.Line - 2; if start < 0 { start = 0 }, without the clamp.
ctxStartUnclamped(line) == line - 2

\* start := pos.Line - 2; if start < 0 { start = 0 }
ctxStart(line) == IF line - 2 < 0 THEN 0 ELSE line - 2

\* end := pos.Line + 1; if end > len(lines) { end = len(lines) }
ctxEnd(line, n) == IF line + 1 > n THEN n ELSE line + 1

\* One call of extractContext(src, pos) with pos.Line = line: whether the slice
\* expression lines[start:end] is out of range (a run-time panic), and the
\* string returned otherwise.
extractContextRun(src, line) ==
  LET lines == Split(src)
  IN  IF line <= 0 \/ line > Len(lines)
      THEN [panic |-> FALSE, out |-> <<>>]
      ELSE LET start == ctxStart(line)
               end   == ctxEnd(line, Len(lines))
           IN  IF ~(0 <= start /\ start <= end /\ end <= Len(lines))
               THEN [panic |-> TRUE, out |-> <<>>]
               ELSE [panic |-> FALSE,
                     out   |-> TrimSpace(Join(SubSeq(lines, start + 1, end), <<nl>>))]

extractContext(src, line) == extractContextRun(src, line).out

VARIABLES cSrc, cLine, cRes

ctxVars == <<cSrc, cLine, cRes>>

\* The characters the explored source texts are made of.
CtxChars == {"x", " ", nl}

CtxSources == UNION {[1..n -> CtxChars] : n \in 0..MaxSrcLen}

NotCalled == [panic |-> FALSE, out |-> <<"?">>]

\* The number of lines of a text: one more than its newlines.
LineCount(src) == 1 + Cardinality({i \in 1..Len(src) : src[i] = nl})

\* The index of the k-th newline of src; 0 for k = 0, Len(src) + 1 past the last.
NthNewline(src, k) ==
  IF k = 0 THEN 0
  ELSE IF k >= LineCount(src) THEN Len(src) + 1
  ELSE CHOOSE i \in 1..Len(src) :
         src[i] = nl /\ Cardinality({j \in 1..i : src[j] = nl}) = k

\* The text of lines lo..hi (1-based, inclusive) with the newlines between them.
LinesText(src, lo, hi) == SubSeq(src, NthNewline(src, lo - 1) + 1, NthNewline(src, hi) - 1)

\* t is s without its leading and trailing white space.
IsTrimOf(t, s) ==
  \E i \in 1..(Len(s) + 1) : \E j \in (i - 1)..Len(s) :
     /\ t = SubSeq(s, i, j)
     /\ \A k \in 1..(i - 1) : IsSpace(s[k])
     /\ \A k \in (j + 1)..Len(s) : IsSpace(s[k])
     /\ t # <<>> => ~IsSpace(t[1]) /\ ~IsSpace(t[Len(t)])

Max(a, b) == IF a > b THEN a ELSE b
Min(a, b) == IF a < b THEN a ELSE b

\* C10: extractContext never slices outside the file's lines, for any source
\* bytes and any line number; it returns the empty string when the line is not
\* in 1..lineCount, and otherwise the whitespace-trimmed join of the lines
\* max(1, line-1) .. min(lineCount, line+1).
C10_ExtractContextClamped ==
  cRes # NotCalled =>
    /\ ~cRes.panic
    /\ IF cLine \notin 1..LineCount(cSrc)
       THEN cRes.out = <<>>
       ELSE IsTrimOf(cRes.out,
                     LinesText(cSrc, Max(1, cLine - 1), Min(LineCount(cSrc), cLine + 1)))

\* extractContext has run on the last line of a text of three or more lines and
\* returned text.
C10_Witness ==
  /\ cRes # NotCalled
  /\ LineCount(cSrc) >= 3
  /\ cLine = LineCount(cSrc)
  /\ cRes.out # <<>>

\* ------------------------------------------------ the directory being walked

\* The names of the tree's directories and files.
nRoot     == <<"r">>
nHidden   == <<".", "h">>
nA        == <<"a", ".", "g", "o">>
nB        == <<"b", ".", "t", "x", "t">>
nG        == <<"g", ".", "g", "o">>
nMyvendor == <<"m", "y", "v", "e", "n", "d", "o", "r">>
nC        == <<"c", ".", "g", "o">>
nP        == <<"p">>
nVendor   == <<"v", "e", "n", "d", "o", "r">>
nD        == <<"d", ".", "g", "o">>
nVendorGo == <<"v", "e", "n", "d", "o", "r", ".", "g", "o">>
nTTest    == <<"t", "_", "t", "e", "s", "t", ".", "g", "o">>

\* filepath.Join(path, d.Name()) down from the root.
PathOf(segments) == Join(segments, <<"/">>)

\* The entries filepath.WalkDir hands to the callback, in its order: a directory
\* before its entries, the entries of a directory sorted by name.
Tree == <<
  [path |-> PathOf(<<nRoot>>),                    isDir |-> TRUE],
  [path |-> PathOf(<<nRoot, nHidden>>),           isDir |-> TRUE],
  [path |-> PathOf(<<nRoot, nHidden, nA>>),       isDir |-> FALSE],
  [path |-> PathOf(<<nRoot, nA>>),                isDir |-> FALSE],
  [path |-> PathOf(<<nRoot, nB>>),                isDir |-> FALSE],
  [path |-> PathOf(<<nRoot, nG>>),                isDir |-> TRUE],
  [path |-> PathOf(<<nRoot, nMyvendor>>),         isDir |-> TRUE],
  [path |-> PathOf(<<nRoot, nMyvendor, nC>>),     isDir |-> FALSE],
  [path |-> PathOf(<<nRoot, nP>>),                isDir |-> TRUE],
  [path |-> PathOf(<<nRoot, nP, nVendor>>),       isDir |-> TRUE],
  [path |-> PathOf(<<nRoot, nP, nVendor, nD>>),   isDir |-> FALSE],
  [path |-> PathOf(<<nRoot, nTTest>>),            isDir |-> FALSE],
  [path |-> PathOf(<<nRoot, nVendorGo>>),         isDir |-> FALSE] >>

\* Package and identifier names.
kMain == <<"m", "a", "i", "n">>
kLib  == <<"l", "i", "b">>
kH    == <<"h">>
kInit == <<"i", "n", "i", "t">>
kV    == <<"v">>
kT    == <<"t">>

\* A declaration of a parsed file: its kind, its name, the byte offset of the
\* node the analyzers take the position of, and for an init function the
\* packages its body refers to (extractInitDependencies) and the offsets of the
\* blocking calls in it (isBlockingCall).
Decl(kind, name, off, deps, blocking) ==
  [kind |-> kind, name |-> name, off |-> off, deps |-> deps, blocking |-> blocking]

\* The bytes of each file and what the parser makes of them.
Content(path) ==
  CASE path = PathOf(<<nRoot, nHidden, nA>>) ->
         [src   |-> <<"x", nl, "x", "x", nl, "x">>,
          pkg   |-> kH,
          decls |-> <<Decl("type", kT, 2, <<>>, <<>>), Decl("var", kV, 5, <<>>, <<>>)>>]
    [] path = PathOf(<<nRoot, nA>>) ->
         [src   |-> <<"x", "x", nl, nl, " ", "x", "x", nl>>,
          pkg   |-> kMain,
          decls |-> <<Decl("type", kT, 0, <<>>, <<>>), Decl("func", kInit, 5, <<kLib>>, <<6>>)>>]
    [] path = PathOf(<<nRoot, nTTest>>) ->
         [src   |-> <<"x", nl, "x", "x">>,
          pkg   |-> kLib,
          decls |-> <<Decl("func", <<"T", "e", "s", "t">>, 2, <<>>, <<>>)>>]
    [] path = PathOf(<<nRoot, nVendorGo>>) ->
         [src   |-> <<"x", nl, "x">>,
          pkg   |-> kLib,
          decls |-> <<Decl("const", kV, 0, <<>>, <<>>), Decl("func", kInit, 2, <<kMain>>, <<>>)>>]
    [] OTHER ->
         [src   |-> <<"x", "x">>,
          pkg   |-> kLib,
          decls |-> <<Decl("func", kInit, 1, <<>>, <<>>)>>]

\* What can be wrong with an entry: nothing; os.Lstat of the root fails;
\* os.ReadDir of a directory fails; os.ReadFile of a file fails;
\* parser.ParseFile of a file fails.
Faults == {"none", "lstat", "readdir", "unreadable", "unparsable"}

FileIdx == {i \in 1..Len(Tree) : ~Tree[i].isDir}
DirIdx  == {i \in 1..Len(Tree) : Tree[i].isDir}

\* The faults of the files: at most MaxBad of them unreadable or unparsable.
FileFaultMaps ==
  {f \in [FileIdx -> {"none", "unreadable", "unparsable"}] :
     Cardinality({i \in FileIdx : f[i] # "none"}) <= MaxBad}

\* The faults of the directories: none, or one directory that cannot be
\* listed, or a root that cannot be stat'ed.
DirFaultMaps ==
  {[i \in DirIdx |-> "none"]}
  \cup {[i \in DirIdx |-> IF i = k THEN "readdir" ELSE "none"] : k \in DirIdx}
  \cup {[i \in DirIdx |-> IF i = 1 THEN "lstat" ELSE "none"]}

\* The directories as a walk can find them.
FaultMaps ==
  {[i \in 1..Len(Tree) |-> IF i \in FileIdx THEN ff[i] ELSE df[i]] :
     ff \in FileFaultMaps, df \in DirFaultMaps}

WithFaults(f) ==
  [i \in 1..Len(Tree) |-> [path |-> Tree[i].path, isDir |-> Tree[i].isDir, fault |-> f[i]]]

IsBadFile(e) == e.fault \in {"unreadable", "unparsable"}

\* The same directory without its unreadable and unparsable files.
Cleaned(dir) == SelectSeq(dir, LAMBDA e : ~IsBadFile(e))

\* ------------------------------------------------- positions (token.FileSet)

\* Position{}: the zero value.
ZeroPosition == [File |-> <<>>, Line |-> 0, Column |-> 0, Offset |-> 0]

\* token.NoPos
NoPos == 0

\* token.NewFileSet(): no files, the next file's base is 1.
NewFileSet == [base |-> 1, files |-> <<>>]

\* The line table the scanner builds: offset 0 and the offset after each
\* newline that is not the file's last byte.
LineTable(src) ==
  LET starts == {0} \cup {i \in 1..(Len(src) - 1) : src[i] = nl}
      F[k \in 0..Cardinality(starts)] ==
        IF k = 0 THEN <<>>
        ELSE LET prev == F[k - 1]
                 low  == {o \in starts : \A j \in 1..Len(prev) : prev[j] < o}
             IN  Append(prev, CHOOSE o \in low : \A q \in low : o <= q)
  IN  F[Cardinality(starts)]

\* parser.ParseFile's fset.AddFile(filename, -1, len(src)): the file takes the
\* set's base, and the base moves past it.
AddFile(fs, name, src) ==
  [base  |-> fs.base + Len(src) + 1,
   files |-> Append(fs.files,
                    [name |-> name, base |-> fs.base, size |-> Len(src),
                     lines |-> LineTable(src)])]

\* The token.Pos of byte offset off in the file added last.
PosOf(fs, off) == fs.files[Len(fs.files)].base + off

\* fset.Position(p): the file whose range holds p, the offset in it, and the
\* line and column the file's line table gives.
FsetPosition(fs, pos) ==
  LET hits == {k \in 1..Len(fs.files) :
                 fs.files[k].base <= pos /\ pos <= fs.files[k].base + fs.files[k].size}
  IN  IF pos = NoPos \/ hits = {} THEN ZeroPosition
      ELSE LET f    == fs.files[CHOOSE k \in hits : TRUE]
               off  == pos - f.base
               line == CHOOSE i \in 1..Len(f.lines) :
                         /\ f.lines[i] <= off
                         /\ i = Len(f.lines) \/ f.lines[i + 1] > off
           IN  [File |-> f.name, Line |-> line, Column |-> off - f.lines[line] + 1,
                Offset |-> off]

\* newPosition copies the four fields, except that it leaves Offset zero.
newPositionNoOffset(pos) ==
  [File |-> pos.File, Line |-> pos.Line, Column |-> pos.Column, Offset |-> 0]

\* newPosition(pos token.Position) Position
newPosition(pos) ==
  [File |-> pos.File, Line |-> pos.Line, Column |-> pos.Column, Offset |-> pos.Offset]

\* ------------------------------------------------------------- the visitors

Procs == {1, 2}

\* error values: nil, what the directory walker hands the callback, and what a
\* visitor returns.
NoErr == [kind |-> "nil", path |-> <<>>]
WalkErr(kind, path) == [kind |-> kind, path |-> path]

\* fmt.Errorf("type %s not found", typeName)
NotFoundErr(typeName) == [kind |-> "not found", path |-> typeName]

\* The upper-case letters among the characters the model uses.
UpperChars == {"E", "F", "H", "O", "Q", "R", "T", "X"}

\* unicode.ToLower on the characters the model uses.
LowerChar(c) ==
  CASE c = "E" -> "e" [] c = "F" -> "f" [] c = "H" -> "h" [] c = "O" -> "o"
    [] c = "Q" -> "q" [] c = "R" -> "r" [] c = "T" -> "t" [] c = "X" -> "x"
    [] OTHER -> c

\* strings.ToLower left out.
ToLowerSkipped(s) == s

\* strings.ToLower
ToLower(s) == [i \in 1..Len(s) |-> LowerChar(s[i])]

\* ast.IsExported
IsExported(name) == name # <<>> /\ Head(name) \in UpperChars

\* matchesPattern without the empty pattern as "no filter".
matchesPatternStrict(name, pattern) ==
  pattern # <<>> /\ Contains(ToLower(name), ToLower(pattern))

\* matchesPattern(name, pattern)
matchesPattern(name, pattern) ==
  IF pattern = <<>> THEN TRUE ELSE Contains(ToLower(name), ToLower(pattern))

kTest   == <<"T", "e", "s", "t">>
kTestGo == <<"_", "t", "e", "s", "t", ".", "g", "o">>

\* The Type findSymbols gives a declaration.
SymbolType(kind) ==
  CASE kind = "func"  -> "function"
    [] kind = "const" -> "constant"
    [] kind = "var"   -> "variable"
    [] OTHER          -> kind

\* The accumulators of an analyzer invocation: the findings in the order they
\* were appended, the issues, and findInitFunctions' packageInits.
EmptyAcc == [items |-> <<>>, issues |-> <<>>, inits |-> <<>>]

RECURSIVE SymbolsOf(_, _, _, _)
\* findSymbols' ast.Inspect over one file: a Symbol for each declaration whose
\* name matches the pattern.
SymbolsOf(decls, pkg, fs, pattern) ==
  IF decls = <<>> THEN <<>>
  ELSE LET d == Head(decls)
       IN  (IF matchesPattern(d.name, pattern)
            THEN <<[Name |-> d.name, Type |-> SymbolType(d.kind), Package |-> pkg,
                    Exported |-> IsExported(d.name),
                    Position |-> newPosition(FsetPosition(fs, d.pos))]>>
            ELSE <<>>)
           \o SymbolsOf(Tail(decls), pkg, fs, pattern)

\* The visitor of findSymbols(dir, pattern).
VisitFindSymbols(acc, path, src, file, fs, pattern) ==
  IF HasSuffix(path, kTestGo) /\ ~Contains(pattern, kTest)
  THEN acc
  ELSE [acc EXCEPT !.items = @ \o SymbolsOf(file.decls, file.pkg, fs, pattern)]

RECURSIVE TypeInfoOf(_, _, _, _)
\* getTypeInfo's ast.Inspect over one file: the TypeInfo of the first type
\* declaration named typeName, if there is one (its Kind, fields and methods
\* left out).
TypeInfoOf(decls, pkg, fs, typeName) ==
  IF decls = <<>> THEN <<>>
  ELSE IF Head(decls).kind = "type" /\ Head(decls).name = typeName
  THEN <<[Name |-> typeName, Package |-> pkg,
          Position |-> newPosition(FsetPosition(fs, Head(decls).pos))]>>
  ELSE TypeInfoOf(Tail(decls), pkg, fs, typeName)

\* The visitor of getTypeInfo without its check that result is still nil: a
\* later file's declaration replaces an earlier one.
VisitGetTypeInfoLast(acc, file, fs, typeName) ==
  IF TypeInfoOf(file.decls, file.pkg, fs, typeName) = <<>> THEN acc
  ELSE [acc EXCEPT !.items = TypeInfoOf(file.decls, file.pkg, fs, typeName)]

\* The visitor of getTypeInfo(dir, typeName); acc.items holds result, empty
\* while result is nil.
VisitGetTypeInfo(acc, file, fs, typeName) ==
  IF acc.items # <<>> THEN acc
  ELSE [acc EXCEPT !.items = TypeInfoOf(file.decls, file.pkg, fs, typeName)]

\* analyzeInitFunction: an issue for each blocking call of the init function.
BlockingIssues(d, fs) ==
  [k \in 1..Len(d.blocking) |->
     [Type |-> "blocking_init", Position |-> newPosition(FsetPosition(fs, d.blocking[k]))]]

RECURSIVE InitsOf(_, _, _, _, _)
\* findInitFunctions' ast.Inspect over one file: for each function named init,
\* the InitFunction appended to analysis.InitFunctions and to packageInits, and
\* the issues analyzeInitFunction appends.
InitsOf(acc, decls, path, src, fs) ==
  IF decls = <<>> THEN acc
  ELSE LET d == Head(decls)
       IN  IF d.kind = "func" /\ d.name = kInit
           THEN LET pos == FsetPosition(fs, d.pos)
                    fn  == [Package |-> d.pkg, FilePath |-> path,
                            Position |-> newPosition(pos),
                            Dependencies |-> d.deps,
                            Context |-> extractContext(src, pos.Line)]
                IN  InitsOf([items  |-> Append(acc.items, fn),
                             issues |-> acc.issues \o BlockingIssues(d, fs),
                             inits  |-> Append(acc.inits, fn)],
                            Tail(decls), path, src, fs)
           ELSE InitsOf(acc, Tail(decls), path, src, fs)

\* The visitor of findInitFunctions(dir).
VisitFindInit(acc, path, src, file, fs) == InitsOf(acc, file.decls, path, src, fs)

\* A visitor of the caller's own (type fileVisitor): it records the file.
VisitOther(acc, path) == [acc EXCEPT !.items = Append(@, [FilePath |-> path])]

\* What the visitor leaves in the accumulators.
VisitorAcc(an, acc, path, src, file, fs) ==
  CASE an.kind = "findSymbols"       -> VisitFindSymbols(acc, path, src, file, fs, an.pattern)
    [] an.kind = "findInitFunctions" -> VisitFindInit(acc, path, src, file, fs)
    [] an.kind = "getTypeInfo"       -> VisitGetTypeInfo(acc, file, fs, an.pattern)
    [] OTHER                         -> VisitOther(acc, path)

\* What the visitor returns: findSymbols', findInitFunctions' and getTypeInfo's
\* visitors always nil; another visitor an error at the files it fails on (findComments': the
\* regexp.Compile error of its filter).
VisitorErr(an, path) ==
  IF an.kind = "visitor" /\ path \in an.failAt THEN WalkErr("visitor", path) ELSE NoErr

\* parser.ParseFile's *ast.File: the package name and the declarations, their
\* positions in the file set.
Parsed(path, fs) ==
  LET c == Content(path)
  IN  [pkg   |-> c.pkg,
       decls |-> [k \in 1..Len(c.decls) |->
                    [kind |-> c.decls[k].kind, name |-> c.decls[k].name,
                     pkg |-> c.pkg,
                     pos |-> PosOf(fs, c.decls[k].off),
                     deps |-> c.decls[k].deps,
                     blocking |-> [j \in 1..Len(c.decls[k].blocking) |->
                                     PosOf(fs, c.decls[k].blocking[j])]]]]

NoFile == [pkg |-> <<>>, decls |-> <<>>]

\* ------------------------------------------- findInitFunctions after the walk

\* The orders a Go map holding the keys S can be ranged over.
RangeOrders(S) ==
  {q \in [1..Cardinality(S) -> S] : \A i, j \in 1..Cardinality(S) : i # j => q[i] # q[j]}

\* The keys of packageInits.
InitPackages(inits) == {inits[k].Package : k \in 1..Len(inits)}

\* The deps set analyzeInitDependencies collects for one package.
InitDeps(inits, pkg) ==
  UNION {{inits[k].Dependencies[j] : j \in 1..Len(inits[k].Dependencies)} :
           k \in {k \in 1..Len(inits) : inits[k].Package = pkg}}

\* The depGraph values analyzeInitDependencies can build: each package's
\* depList is its deps set in the order the map is ranged over.
DepGraphs(inits) ==
  LET pkgs == InitPackages(inits)
      all  == UNION {RangeOrders(InitDeps(inits, q)) : q \in pkgs}
  IN  {g \in [pkgs -> all] : \A q \in pkgs : g[q] \in RangeOrders(InitDeps(inits, q))}

\* graph[pkg]: nil for a package that is no key.
GraphAt(graph, pkg) == IF pkg \in DOMAIN graph THEN graph[pkg] ELSE <<>>

RECURSIVE detectCycle(_, _, _, _)
RECURSIVE detectCycleDeps(_, _, _, _, _)
\* detectCycle(current, graph, visited, path)
detectCycle(current, graph, visited, path) ==
  LET at == {i \in 1..Len(path) : path[i] = current}
  IN  IF current \in visited /\ at # {}
      THEN [has |-> TRUE,
            cycle |-> SubSeq(path, CHOOSE i \in at : \A j \in at : i <= j, Len(path))]
      ELSE detectCycleDeps(current, graph, visited \cup {current}, path, 1)

\* detectCycle's loop leaving after the first element of graph[current].
detectCycleFirstDep(current, graph, visited, path, k) ==
  LET deps == GraphAt(graph, current)
  IN  IF k > Len(deps) \/ k > 1 THEN [has |-> FALSE, cycle |-> <<>>]
      ELSE detectCycle(deps[k], graph, visited, Append(path, deps[k]))

\* detectCycle's loop over graph[current], from its k-th element on.
detectCycleDeps(current, graph, visited, path, k) ==
  LET deps == GraphAt(graph, current)
  IN  IF k > Len(deps) THEN [has |-> FALSE, cycle |-> <<>>]
      ELSE LET r == detectCycle(deps[k], graph, visited, Append(path, deps[k]))
           IN  IF r.has THEN r ELSE detectCycleDeps(current, graph, visited, path, k + 1)

\* The Position analyzeInitDependencies gives a circular_init_dependency issue.
CycleIssuePosition == ZeroPosition

RECURSIVE CycleIssues(_, _)
\* analyzeInitDependencies' loop over depGraph, ranged in the order given: an
\* issue for each package detectCycle finds a cycle from.
CycleIssues(graph, order) ==
  IF order = <<>> THEN <<>>
  ELSE LET r == detectCycle(Head(order), graph, {}, <<Head(order)>>)
       IN  (IF r.has
            THEN <<[Type |-> "circular_init_dependency", Cycle |-> r.cycle,
                    Position |-> CycleIssuePosition]>>
            ELSE <<>>)
           \o CycleIssues(graph, Tail(order))

RECURSIVE topoVisit(_, _, _)
RECURSIVE topoVisitDeps(_, _, _, _)
\* topologicalSort's visit(pkg) on the state st = (visited, temp, result).
topoVisit(pkg, graph, st) ==
  IF pkg \in st.temp THEN [ok |-> FALSE, st |-> st]
  ELSE IF pkg \in st.visited THEN [ok |-> TRUE, st |-> st]
  ELSE topoVisitDeps(pkg, graph, [st EXCEPT !.temp = @ \cup {pkg}], 1)

\* visit's loop over graph[pkg], from its k-th element on, and what follows it.
topoVisitDeps(pkg, graph, st, k) ==
  LET deps == GraphAt(graph, pkg)
  IN  IF k > Len(deps)
      THEN [ok |-> TRUE,
            st |-> [visited |-> st.visited \cup {pkg}, temp |-> st.temp \ {pkg},
                    result  |-> <<pkg>> \o st.result]]
      ELSE LET r == topoVisit(deps[k], graph, st)
           IN  IF ~r.ok THEN r ELSE topoVisitDeps(pkg, graph, r.st, k + 1)

RECURSIVE SortStrings(_)
\* sort.Strings of a set of keys.
SortStrings(S) ==
  IF S = {} THEN <<>>
  ELSE LET m == CHOOSE x \in S : \A y \in S : y = x \/ StrLess(x, y)
       IN  <<m>> \o SortStrings(S \ {m})

RECURSIVE topoLoop(_, _, _)
\* topologicalSort's loop over the sorted packages.
topoLoop(packages, graph, st) ==
  IF packages = <<>> THEN st
  ELSE topoLoop(Tail(packages), graph,
                IF Head(packages) \in st.visited THEN st
                ELSE topoVisit(Head(packages), graph, st).st)

\* topologicalSort(graph)
topologicalSort(graph) ==
  topoLoop(SortStrings(DOMAIN graph), graph,
           [visited |-> {}, temp |-> {}, result |-> <<>>]).result

\* The less function findInitFunctions sorts the init functions with.
InitLess(a, b) ==
  IF a.Package # b.Package THEN StrLess(a.Package, b.Package)
  ELSE StrLess(a.FilePath, b.FilePath)

\* The orders sort.Slice can leave the init functions in: sorted, elements
\* that compare equal in any order.
SortedInits(items) ==
  {[i \in 1..Len(items) |-> items[q[i]]] :
     q \in {q \in RangeOrders(1..Len(items)) :
              \A i, j \in 1..Len(items) : i < j => ~InitLess(items[q[j]], items[q[i]])}}

\* A nil result.
NilResult == [nil |-> TRUE, items |-> <<>>, issues |-> <<>>, order |-> <<>>]

Result(items, issues, order) ==
  [nil |-> FALSE, items |-> items, issues |-> issues, order |-> order]

\* ------------------------------------------------------------- walkGoFiles

VARIABLES
  analyzer,  \* per invocation: the analyzer called and its parameters
  fsys,      \* per invocation: the directory it walks, as the walk finds it
  pc,        \* per invocation: where it stands
  idx,       \* per invocation: the entry the walker is at
  fset,      \* per invocation: walkGoFiles' fset
  src,       \* per invocation: the callback's src
  file,      \* per invocation: the callback's file
  acc,       \* per invocation: the analyzer's accumulators
  walkErr,   \* per invocation: what walkGoFiles returned
  ret,       \* per invocation: what the analyzer returned
  log        \* per invocation: the file operations and visitor calls so far

walkVars == <<analyzer, fsys, pc, idx, fset, src, file, acc, walkErr, ret, log>>

\* analyzeDependencies' state
VARIABLES
  dIn,     \* the depMap the first pass builds from the directory
  dMap,    \* the depMap of the running call
  dLeft,   \* the keys the loop over depMap has yet to reach
  dDeps,   \* deps
  dRes     \* what the calls made so far returned

depVars == <<dIn, dMap, dLeft, dDeps, dRes>>

\* analyzeDependencies is not called.
DepsIdle == dIn = <<>> /\ dMap = <<>> /\ dLeft = {} /\ dDeps = <<>> /\ dRes = <<>>

\* The helper functions' state: the helper called, its arguments, its result
VARIABLES pFn, pArg, pOut

pureVars == <<pFn, pArg, pOut>>

\* No helper is called.
PureIdle == pFn = "none" /\ pArg = <<>> /\ pOut = <<>>

\* analyzeDeferPatterns' state: the parsed function, the nodes ast.Inspect has
\* yet to reach, currentFunc, analysis.Defers and analysis.Issues, and whether
\* it returned
VARIABLES dfBody, dfTodo, dfFunc, dfDefers, dfIssues, dfDone

deferVars == <<dfBody, dfTodo, dfFunc, dfDefers, dfIssues, dfDone>>

\* analyzeDeferPatterns is not called.
DeferIdle ==
  /\ dfBody = <<>> /\ dfTodo = <<>> /\ dfFunc = "" /\ dfDefers = <<>> /\ dfIssues = <<>>
  /\ dfDone = FALSE

\* goRun's and goTest's state: the call, the time since the context was made,
\* the go command's process, what cmd.Run returned, where the call stands and
\* its result
VARIABLES rCall, rClock, rProc, rRunErr, rPc, rResult

runVars == <<rCall, rClock, rProc, rRunErr, rPc, rResult>>

\* No process started yet, and cmd.Run not returned yet.
NoProcess == [state |-> "none", exit |-> 0]
NotRun == [type |-> "none", code |-> 0]

\* Neither goRun nor goTest is called.
RunIdle ==
  /\ rCall = <<>> /\ rClock = 0 /\ rProc = NoProcess /\ rRunErr = NotRun /\ rPc = "idle"
  /\ rResult = <<>>

\* The editors' state: the bytes of the file on disk, and per call of
\* writeRange or processFile where it stands, its arguments, the bytes it read
\* and its result
VARIABLES eFile, ePc, eArgs, eData, eRes

editVars == <<eFile, ePc, eArgs, eData, eRes>>

\* No editor is called.
EditIdle == eFile = <<>> /\ ePc = <<>> /\ eArgs = <<>> /\ eData = <<>> /\ eRes = <<>>

\* The literal scans' state: the arguments, start, what the loop has built so
\* far, and where the loop stands
VARIABLES sArgs, sStart, sOut, sPc

searchVars == <<sArgs, sStart, sOut, sPc>>

\* No scan runs.
SearchIdle == sArgs = <<>> /\ sStart = 0 /\ sOut = <<>> /\ sPc = "idle"

toolVars == <<runVars, editVars, searchVars>>

ToolsIdle == RunIdle /\ EditIdle /\ SearchIdle

vars == <<cSrc, cLine, cRes, analyzer, fsys, pc, idx, fset, src, file, acc, walkErr,
          ret, log, dIn, dMap, dLeft, dDeps, dRes, pFn, pArg, pOut,
          dfBody, dfTodo, dfFunc, dfDefers, dfIssues, dfDone,
          rCall, rClock, rProc, rRunErr, rPc, rResult, eFile, ePc, eArgs, eData, eRes,
          sArgs, sStart, sOut, sPc>>

kDotGo      == <<".", "g", "o">>
kVendorSlash == <<"v", "e", "n", "d", "o", "r", "/">>

\* strings.HasSuffix(path, ".go")
IsGoPath(path) == HasSuffix(path, kDotGo)

\* strings.Contains(path, "vendor/"), testing the start of the path only.
IsVendoredPrefixOnly(path) ==
  Len(path) >= Len(kVendorSlash) /\ SubSeq(path, 1, Len(kVendorSlash)) = kVendorSlash

\* strings.Contains(path, "vendor/")
IsVendored(path) == Contains(path, kVendorSlash)

\* The skip test, leaving out what lies in dot-directories as well.
SkipsDotDirs(e) ==
  e.isDir \/ ~IsGoPath(e.path) \/ IsVendored(e.path) \/ Contains(e.path, <<"/", ".">>)

\* d.IsDir() || !strings.HasSuffix(path, ".go") || strings.Contains(path, "vendor/")
Skips(e) == e.isDir \/ ~IsGoPath(e.path) \/ IsVendored(e.path)

\* if err != nil { return err }, returning nil instead.
CallbackOnErrSwallowed(err) == NoErr

\* if err != nil { return err }: what the callback returns when the walker
\* hands it err.
CallbackOnErr(err) == err

\* return visitor(path, src, file, fset), dropping the visitor's error.
CallbackAfterVisitSwallowed(verr) == NoErr

\* return visitor(path, src, file, fset): what the callback returns when the
\* visitor returned verr.
CallbackAfterVisit(verr) == verr


\* src, err := os.ReadFile(path); if err != nil { return nil }
ReadFails(e) == e.fault = "unreadable"

\* if err != nil { return nil } after parser.ParseFile, returning the error.
OnParseErrReturned(path) == WalkErr("parse", path)

\* file, err := parser.ParseFile(...); if err != nil { return nil }: what the
\* callback returns for a file that does not parse.
OnParseErr(path) == NoErr

Event(op, path) == <<op, path>>

\* One file set and one set of accumulators for every invocation.
StateShared(p) == 1

\* The file set (fset := token.NewFileSet()) and the accumulators (var symbols
\* []Symbol) invocation p works on: its own.
StateOf(p) == p

Entry(p) == fsys[p][idx[p]]

\* The walker moves on from the current entry after the callback returned nil.
Advance(p) ==
  /\ idx' = [idx EXCEPT ![p] = @ + 1]
  /\ pc' = [pc EXCEPT ![p] = "walk"]

\* walkGoFiles returns err.
WalkReturns(p, err) ==
  /\ walkErr' = [walkErr EXCEPT ![p] = err]
  /\ pc' = [pc EXCEPT ![p] = "walked"]
  /\ UNCHANGED idx

\* filepath.WalkDir calls the callback for the next entry: with the Lstat error
\* of a root it cannot stat, and otherwise with a nil error, where the callback
\* skips the entry or goes on to read it.
Callback(p) ==
  /\ pc[p] = "walk"
  /\ idx[p] <= Len(fsys[p])
  /\ LET e == Entry(p)
     IN  IF e.fault = "lstat"
         THEN IF CallbackOnErr(WalkErr("lstat", e.path)) # NoErr
              THEN WalkReturns(p, CallbackOnErr(WalkErr("lstat", e.path)))
              ELSE WalkReturns(p, WalkErr("panic", e.path))
         ELSE IF Skips(e)
         THEN IF e.isDir /\ e.fault = "readdir"
              THEN pc' = [pc EXCEPT ![p] = "direrr"] /\ UNCHANGED <<idx, walkErr>>
              ELSE Advance(p) /\ UNCHANGED walkErr
         ELSE pc' = [pc EXCEPT ![p] = "read"] /\ UNCHANGED <<idx, walkErr>>
  /\ log' = [log EXCEPT ![p] =
               Append(@, Event(IF Entry(p).fault = "lstat" THEN "callbackErr" ELSE "callback",
                               Entry(p).path))]
  /\ UNCHANGED ctxVars
  /\ UNCHANGED depVars
  /\ UNCHANGED deferVars
  /\ UNCHANGED toolVars
  /\ UNCHANGED pureVars
  /\ UNCHANGED <<analyzer, fsys, fset, src, file, acc, ret>>

\* os.ReadDir of the directory failed: filepath.WalkDir calls the callback a
\* second time, with the error, and ends the walk with what it returns.
CallbackDirErr(p) ==
  /\ pc[p] = "direrr"
  /\ LET err == CallbackOnErr(WalkErr("readdir", Entry(p).path))
     IN  IF err # NoErr THEN WalkReturns(p, err) ELSE Advance(p) /\ UNCHANGED walkErr
  /\ log' = [log EXCEPT ![p] = Append(@, Event("callbackErr", Entry(p).path))]
  /\ UNCHANGED ctxVars
  /\ UNCHANGED depVars
  /\ UNCHANGED deferVars
  /\ UNCHANGED toolVars
  /\ UNCHANGED pureVars
  /\ UNCHANGED <<analyzer, fsys, fset, src, file, acc, ret>>

\* os.ReadFile followed by os.Chmod(path, 0): the file cannot be read again.
ReadFileLocking(p) ==
  /\ pc[p] = "read"
  /\ IF ReadFails(Entry(p))
     THEN Advance(p) /\ UNCHANGED <<src, fsys>>
     ELSE /\ src' = [src EXCEPT ![p] = Content(Entry(p).path).src]
          /\ fsys' = [fsys EXCEPT ![p][idx[p]].fault = "unreadable"]
          /\ pc' = [pc EXCEPT ![p] = "parse"]
          /\ UNCHANGED idx
  /\ log' = [log EXCEPT ![p] = Append(@, Event("read", Entry(p).path))]
  /\ UNCHANGED ctxVars
  /\ UNCHANGED depVars
  /\ UNCHANGED deferVars
  /\ UNCHANGED toolVars
  /\ UNCHANGED pureVars
  /\ UNCHANGED <<analyzer, fset, file, acc, walkErr, ret>>

\* src, err := os.ReadFile(path)
ReadFile(p) ==
  /\ pc[p] = "read"
  /\ IF ReadFails(Entry(p))
     THEN Advance(p) /\ UNCHANGED src
     ELSE /\ src' = [src EXCEPT ![p] = Content(Entry(p).path).src]
          /\ pc' = [pc EXCEPT ![p] = "parse"]
          /\ UNCHANGED idx
  /\ log' = [log EXCEPT ![p] = Append(@, Event("read", Entry(p).path))]
  /\ UNCHANGED ctxVars
  /\ UNCHANGED depVars
  /\ UNCHANGED deferVars
  /\ UNCHANGED toolVars
  /\ UNCHANGED pureVars
  /\ UNCHANGED <<analyzer, fsys, fset, file, acc, walkErr, ret>>

\* file, err := parser.ParseFile(fset, path, src, parser.ParseComments): the
\* file enters the file set whether or not it parses.
ParseFile(p) ==
  /\ pc[p] = "parse"
  /\ fset' = [fset EXCEPT ![StateOf(p)] = AddFile(@, Entry(p).path, src[p])]
  /\ IF Entry(p).fault = "unparsable"
     THEN /\ IF OnParseErr(Entry(p).path) = NoErr
             THEN Advance(p) /\ UNCHANGED walkErr
             ELSE WalkReturns(p, OnParseErr(Entry(p).path))
          /\ src' = [src EXCEPT ![p] = <<>>]
          /\ UNCHANGED file
     ELSE /\ file' = [file EXCEPT ![p] = Parsed(Entry(p).path, fset'[StateOf(p)])]
          /\ pc' = [pc EXCEPT ![p] = "visit"]
          /\ UNCHANGED <<idx, src, walkErr>>
  /\ log' = [log EXCEPT ![p] = Append(@, Event("parse", Entry(p).path))]
  /\ UNCHANGED ctxVars
  /\ UNCHANGED depVars
  /\ UNCHANGED deferVars
  /\ UNCHANGED toolVars
  /\ UNCHANGED pureVars
  /\ UNCHANGED <<analyzer, fsys, acc, ret>>

\* return visitor(path, src, file, fset)
Visit(p) ==
  /\ pc[p] = "visit"
  /\ acc' = [acc EXCEPT ![StateOf(p)] =
               VisitorAcc(analyzer[p], @, Entry(p).path, src[p], file[p],
                          fset[StateOf(p)])]
  /\ LET err == CallbackAfterVisit(VisitorErr(analyzer[p], Entry(p).path))
     IN  IF err # NoErr THEN WalkReturns(p, err) ELSE Advance(p) /\ UNCHANGED walkErr
  /\ src' = [src EXCEPT ![p] = <<>>]
  /\ file' = [file EXCEPT ![p] = NoFile]
  /\ log' = [log EXCEPT ![p] = Append(@, Event("visit", Entry(p).path))]
  /\ UNCHANGED ctxVars
  /\ UNCHANGED depVars
  /\ UNCHANGED deferVars
  /\ UNCHANGED toolVars
  /\ UNCHANGED pureVars
  /\ UNCHANGED <<analyzer, fsys, fset, ret>>

\* filepath.WalkDir has no entry left: walkGoFiles returns nil.
WalkEnds(p) ==
  /\ pc[p] = "walk"
  /\ idx[p] > Len(fsys[p])
  /\ WalkReturns(p, NoErr)
  /\ UNCHANGED ctxVars
  /\ UNCHANGED depVars
  /\ UNCHANGED deferVars
  /\ UNCHANGED toolVars
  /\ UNCHANGED pureVars
  /\ UNCHANGED <<analyzer, fsys, fset, src, file, acc, ret, log>>

NotReturned == [result |-> NilResult, err |-> WalkErr("pending", <<>>)]

\* What the analyzer can return after a walk that left the accumulators a and
\* returned err. findSymbols, and a caller that collects with a visitor of its
\* own, return what was accumulated together with the error. findInitFunctions
\* returns nil and the error when the walk failed, and otherwise goes on to
\* analyzeInitDependencies (the cycle issues, the init order) and sorts the
\* init functions. getTypeInfo returns nil and a "type X not found" error when
\* result is nil and the walk returned nil, and otherwise result and the walk's
\* error.
ReturnValues(an, a, err) ==
  IF an.kind = "getTypeInfo"
  THEN IF a.items = <<>> /\ err = NoErr
       THEN {[result |-> NilResult, err |-> NotFoundErr(an.pattern)]}
       ELSE {[result |-> IF a.items = <<>> THEN NilResult ELSE Result(a.items, <<>>, <<>>),
              err    |-> err]}
  ELSE IF an.kind # "findInitFunctions"
  THEN {[result |-> Result(a.items, <<>>, <<>>), err |-> err]}
  ELSE IF err # NoErr
  THEN {[result |-> NilResult, err |-> err]}
  ELSE {[result |-> Result(sorted, a.issues \o CycleIssues(g, order), topologicalSort(g)),
         err    |-> NoErr] :
          g \in DepGraphs(a.inits),
          order \in RangeOrders(InitPackages(a.inits)),
          sorted \in SortedInits(a.items)}

\* The analyzer returns to its caller.
Return(p) ==
  /\ pc[p] = "walked"
  /\ \E r \in ReturnValues(analyzer[p], acc[StateOf(p)], walkErr[p]) :
       ret' = [ret EXCEPT ![p] = r]
  /\ pc' = [pc EXCEPT ![p] = "returned"]
  /\ UNCHANGED ctxVars
  /\ UNCHANGED depVars
  /\ UNCHANGED deferVars
  /\ UNCHANGED toolVars
  /\ UNCHANGED pureVars
  /\ UNCHANGED <<analyzer, fsys, idx, fset, src, file, acc, walkErr, log>>

\* The caller calls the analyzer again once it has returned: over the same
\* directory, or over the directory without its unreadable and unparsable
\* files.
SecondCall ==
  /\ pc[1] = "returned"
  /\ pc[2] = "idle"
  /\ \E d \in {fsys[1], Cleaned(fsys[1])} : fsys' = [fsys EXCEPT ![2] = d]
  /\ pc' = [pc EXCEPT ![2] = "walk"]
  /\ UNCHANGED ctxVars
  /\ UNCHANGED depVars
  /\ UNCHANGED deferVars
  /\ UNCHANGED toolVars
  /\ UNCHANGED pureVars
  /\ UNCHANGED <<analyzer, idx, fset, src, file, acc, walkErr, ret, log>>

\* The .go files the walk can reach a visitor with.
VisitablePaths == {Tree[i].path : i \in {i \in FileIdx : ~Skips(Tree[i])}}

AllPaths == {Tree[i].path : i \in 1..Len(Tree)}

\* The analyzer calls: findSymbols with the empty pattern and with a pattern no
\* name contains, findInitFunctions, getTypeInfo for a type two files declare
\* and for a name only a variable and a constant have, and a visitor that fails
\* on no file, on one file, or on every file.
Analyzers ==
  {[kind |-> "findSymbols", pattern |-> <<>>, failAt |-> {}],
   [kind |-> "findSymbols", pattern |-> <<"z">>, failAt |-> {}],
   [kind |-> "findInitFunctions", pattern |-> <<>>, failAt |-> {}],
   [kind |-> "getTypeInfo", pattern |-> kT, failAt |-> {}],
   [kind |-> "getTypeInfo", pattern |-> kV, failAt |-> {}]}
  \cup {[kind |-> "visitor", pattern |-> <<>>, failAt |-> F] :
          F \in {{}, AllPaths} \cup {{q} : q \in VisitablePaths}}

WalkStart(as, dirs, pcs) ==
  /\ analyzer = as
  /\ fsys = dirs
  /\ pc = pcs
  /\ idx = [p \in Procs |-> 1]
  /\ fset = [p \in Procs |-> NewFileSet]
  /\ src = [p \in Procs |-> <<>>]
  /\ file = [p \in Procs |-> NoFile]
  /\ acc = [p \in Procs |-> EmptyAcc]
  /\ walkErr = [p \in Procs |-> NoErr]
  /\ ret = [p \in Procs |-> NotReturned]
  /\ log = [p \in Procs |-> <<>>]

CtxIdle == cSrc = <<>> /\ cLine = 0 /\ cRes = NotCalled

\* One analyzer call on a directory; a second call follows the first.
Init ==
  /\ CtxIdle
  /\ DepsIdle
  /\ DeferIdle
  /\ ToolsIdle
  /\ PureIdle
  /\ \E a \in Analyzers : \E f \in FaultMaps :
       WalkStart([p \in Procs |-> a],
                 [p \in Procs |-> IF p = 1 THEN WithFaults(f) ELSE <<>>],
                 [p \in Procs |-> IF p = 1 THEN "walk" ELSE "idle"])

Step(p) ==
  \/ Callback(p)
  \/ CallbackDirErr(p)
  \/ ReadFile(p)
  \/ ParseFile(p)
  \/ Visit(p)
  \/ WalkEnds(p)
  \/ Return(p)

Next ==
  \/ \E p \in Procs : Step(p)
  \/ SecondCall

Spec == Init /\ [][Next]_vars

\* The caller evaluates extractContext(src, pos).
CallExtractContext ==
  /\ cRes = NotCalled
  /\ cRes' = extractContextRun(cSrc, cLine)
  /\ UNCHANGED <<cSrc, cLine>>
  /\ UNCHANGED walkVars
  /\ UNCHANGED depVars
  /\ UNCHANGED deferVars
  /\ UNCHANGED toolVars
  /\ UNCHANGED pureVars


\* No analyzer is called.
WalkIdle ==
  WalkStart([p \in Procs |-> [kind |-> "findSymbols", pattern |-> <<>>, failAt |-> {}]],
            [p \in Procs |-> <<>>], [p \in Procs |-> "idle"])

NextCtx == CallExtractContext

\* Every source text and every line number, below the first line to past the
\* last.
InitCtx ==
  /\ cSrc \in CtxSources
  /\ cLine \in (-1)..(MaxSrcLen + 2)
  /\ cRes = NotCalled
  /\ WalkIdle
  /\ DepsIdle
  /\ DeferIdle
  /\ ToolsIdle
  /\ PureIdle

\* extractContext on every source text and line number.
SpecCtx == InitCtx /\ [][NextCtx]_vars

\* The faults of the concurrent calls' directory: at most MaxBad of the files a
\* walk can visit unreadable or unparsable, and the directory p listable or not.
ConcFaultMaps ==
  {f \in FaultMaps :
     /\ \A i \in FileIdx : Skips(Tree[i]) => f[i] = "none"
     /\ \A i \in DirIdx : Tree[i].path # PathOf(<<nRoot, nP>>) => f[i] = "none"}

\* Two analyzer calls arriving together: findSymbols or findInitFunctions
\* beside findSymbols or a visitor that fails on a file, over the same
\* directory or over the directory and its copy without the bad files.
InitConc ==
  /\ CtxIdle
  /\ DepsIdle
  /\ DeferIdle
  /\ ToolsIdle
  /\ PureIdle
  /\ \E a1 \in {a \in Analyzers : a.kind \in {"findSymbols", "findInitFunctions"}} :
     \E a2 \in {a \in Analyzers : a.kind = "findSymbols"
                                   \/ a.failAt = {PathOf(<<nRoot, nA>>)}} :
     \E f \in ConcFaultMaps :
     \E d2 \in {WithFaults(f), Cleaned(WithFaults(f))} :
       WalkStart([p \in Procs |-> IF p = 1 THEN a1 ELSE a2],
                 [p \in Procs |-> IF p = 1 THEN WithFaults(f) ELSE d2],
                 [p \in Procs |-> "walk"])

NextConc == \E p \in Procs : Step(p)

\* Two analyzer invocations running concurrently.
SpecConc == InitConc /\ [][NextConc]_vars

RECURSIVE WalkAlone(_, _, _, _)
\* walkGoFiles with the analyzer's visitor run from entry i on by itself, from
\* the file set and accumulators st: the accumulators and the error it ends
\* with.
WalkAlone(an, dir, i, st) ==
  IF i > Len(dir) THEN [acc |-> st.acc, err |-> NoErr]
  ELSE LET e == dir[i]
       IN  IF e.fault = "lstat"
           THEN [acc |-> st.acc, err |-> CallbackOnErr(WalkErr("lstat", e.path))]
           ELSE IF Skips(e)
           THEN IF e.isDir /\ e.fault = "readdir"
                THEN [acc |-> st.acc, err |-> CallbackOnErr(WalkErr("readdir", e.path))]
                ELSE WalkAlone(an, dir, i + 1, st)
           ELSE IF ReadFails(e) THEN WalkAlone(an, dir, i + 1, st)
           ELSE LET text == Content(e.path).src
                    fs   == AddFile(st.fset, e.path, text)
                IN  IF e.fault = "unparsable"
                    THEN WalkAlone(an, dir, i + 1, [fset |-> fs, acc |-> st.acc])
                    ELSE LET a == VisitorAcc(an, st.acc, e.path, text, Parsed(e.path, fs), fs)
                             verr == CallbackAfterVisit(VisitorErr(an, e.path))
                         IN  IF verr # NoErr THEN [acc |-> a, err |-> verr]
                             ELSE WalkAlone(an, dir, i + 1, [fset |-> fs, acc |-> a])

\* What the analyzer an can return for the directory dir when it runs alone.
ReturnsAlone(an, dir) ==
  LET w == WalkAlone(an, dir, 1, [fset |-> NewFileSet, acc |-> EmptyAcc])
  IN  ReturnValues(an, w.acc, w.err)

\* C8: concurrent analyzer invocations share no mutable state: a step of one
\* leaves the file set, the accumulators and the progress of the other as they
\* were, so that under every interleaving each invocation returns what the
\* analyzer returns for its directory when it runs alone.
C8_ConcurrentCallsIndependent ==
  \A p \in Procs :
    /\ pc[p] = "returned" => ret[p] \in ReturnsAlone(analyzer[p], fsys[p])
    /\ pc[p] = "walk" /\ idx[p] = 1 => fset[p] = NewFileSet /\ acc[p] = EmptyAcc

\* The two invocations overlapped: the first ran its walk to the end and
\* returned findings while the second, over another directory and with another
\* visitor, had visited one file and stood in the visitor of the next.
C8_Witness ==
  /\ pc[1] = "returned" /\ pc[2] = "visit"
  /\ Len(ret[1].result.items) >= 2
  /\ Len(acc[2].items) >= 1
  /\ analyzer[1].kind # analyzer[2].kind
  /\ fsys[1] # fsys[2]

\* ------------------------------------------------------ properties of a walk

\* The paths the visitor was invoked for, in order.
Visited(p) ==
  LET v == SelectSeq(log[p], LAMBDA e : e[1] = "visit")
  IN  [k \in 1..Len(v) |-> v[k][2]]

\* How many times the visitor was invoked for path.
VisitCount(p, path) == Cardinality({k \in 1..Len(log[p]) : log[p][k] = Event("visit", path)})

\* The walk of invocation p is over.
WalkOver(p) == pc[p] \in {"walked", "returned"}

\* The entry of p's directory at path.
EntryAt(p, path) == CHOOSE e \in {fsys[p][i] : i \in 1..Len(fsys[p])} : e.path = path

Entries(p) == {fsys[p][i] : i \in 1..Len(fsys[p])}

\* Nothing but file-local failures can happen in p's walk: every directory
\* lists, and the visitor fails on no file.
OnlyFileFaults(p) ==
  /\ \A e \in Entries(p) : e.isDir => e.fault = "none"
  /\ analyzer[p].failAt = {}

\* The elements of a sequence, with their multiplicities.
BagOf(q) == [x \in {q[k] : k \in 1..Len(q)} |-> Cardinality({k \in 1..Len(q) : q[k] = x})]

\* Two returns that differ at most in the order of the issues (which follows
\* the order the runtime ranges over a map in).
SameReturn(a, b) ==
  /\ a.err = b.err
  /\ a.result.nil = b.result.nil
  /\ a.result.items = b.result.items
  /\ a.result.order = b.result.order
  /\ BagOf(a.result.issues) = BagOf(b.result.issues)

\* C1: the visitor is never invoked for a file that cannot be read or cannot
\* be parsed; when nothing else fails the walk goes on to every remaining
\* entry and returns nil; and the call over the directory without its
\* unreadable and unparsable files returns the same results as the call over
\* the directory that holds them.
C1_FileFailuresAbsorbed ==
  /\ \A p \in Procs : \A k \in 1..Len(Visited(p)) : ~IsBadFile(EntryAt(p, Visited(p)[k]))
  /\ \A p \in Procs :
       WalkOver(p) /\ OnlyFileFaults(p) =>
         /\ walkErr[p] = NoErr
         /\ \A e \in Entries(p) : \E k \in 1..Len(log[p]) : log[p][k] = Event("callback", e.path)
  /\ pc[1] = "returned" /\ pc[2] = "returned" /\ fsys[2] = Cleaned(fsys[1]) =>
       SameReturn(ret[1], ret[2])

\* A directory with an unparsable .go file between valid ones was analysed
\* without error and found several things, and so was the same directory
\* without that file.
C1_Witness ==
  /\ pc[1] = "returned" /\ pc[2] = "returned"
  /\ fsys[2] = Cleaned(fsys[1])
  /\ \E e \in Entries(1) : e.fault = "unparsable" /\ ~Skips(e) /\ e.path = PathOf(<<nRoot, nA>>)
  /\ ret[1].err = NoErr
  /\ Len(ret[1].result.items) >= 2

\* C2: when the directory walker hands the callback a non-nil error, that call
\* is the last thing the walk does (no file is read, parsed or visited after
\* it), walkGoFiles returns that error, and the analyzer returns it to its
\* caller.
C2_TraversalErrorPropagates ==
  \A p \in Procs : \A k \in 1..Len(log[p]) :
    log[p][k][1] = "callbackErr" =>
      /\ k = Len(log[p])
      /\ WalkOver(p)
      /\ walkErr[p] = WalkErr(EntryAt(p, log[p][k][2]).fault, log[p][k][2])
      /\ EntryAt(p, log[p][k][2]).fault \in {"lstat", "readdir"}
      /\ pc[p] = "returned" => ret[p].err = walkErr[p]

\* A directory of the tree could not be listed after files had been visited and
\* before others were reached, and the analyzer returned the error.
C2_Witness ==
  /\ pc[1] = "returned"
  /\ ret[1].err = WalkErr("readdir", PathOf(<<nRoot, nP>>))
  /\ Len(Visited(1)) = 2
  /\ \E e \in Entries(1) : ~Skips(e) /\ e.fault = "none" /\ VisitCount(1, e.path) = 0

\* The events of the log that read, parse or visit a file.
FileOps(p) == SelectSeq(log[p], LAMBDA e : e[1] \in {"read", "parse", "visit"})

OpRank(op) == CASE op = "read" -> 1 [] op = "parse" -> 2 [] OTHER -> 3

\* C3: files are processed one after another, each read, then parsed, then
\* visited, and nothing is done to a file once a later file has been read; and
\* once the visitor has returned an error for a file, the walk does nothing
\* more and walkGoFiles returns exactly that error.
C3_SequentialAndVisitorErrorAborts ==
  \A p \in Procs :
    /\ \A i, j \in 1..Len(FileOps(p)) :
         i < j =>
           LET a == FileOps(p)[i]
               b == FileOps(p)[j]
           IN  /\ a[2] = b[2] => OpRank(a[1]) < OpRank(b[1])
               /\ a[2] # b[2] => \A m \in j..Len(FileOps(p)) : FileOps(p)[m][2] # a[2]
    /\ \A k \in 1..Len(log[p]) :
         log[p][k][1] = "visit" /\ VisitorErr(analyzer[p], log[p][k][2]) # NoErr =>
           /\ k = Len(log[p])
           /\ WalkOver(p)
           /\ walkErr[p] = VisitorErr(analyzer[p], log[p][k][2])

\* The visitor failed on the second file it was given, with a file it would
\* have been given later still in the directory.
C3_Witness ==
  /\ pc[1] = "returned"
  /\ ret[1].err.kind = "visitor"
  /\ Len(Visited(1)) = 2
  /\ \E e \in Entries(1) : ~Skips(e) /\ e.fault = "none" /\ VisitCount(1, e.path) = 0

\* The directory components of a path: its segments but the last.
DirSegments(path) ==
  LET segs == SplitOn(path, "/") IN {segs[k] : k \in 1..(Len(segs) - 1)}

\* C4: the visitor is never invoked for a file under a directory named vendor,
\* at any depth.
C4_VendorNeverVisited ==
  \A p \in Procs : \A k \in 1..Len(Visited(p)) : nVendor \notin DirSegments(Visited(p)[k])

\* A walk ran to its end over a tree with a readable, parsable .go file two levels
\* down under a vendor directory, and visited other files.
C4_Witness ==
  /\ pc[1] = "walked" /\ walkErr[1] = NoErr
  /\ \E e \in Entries(1) :
       /\ nVendor \in DirSegments(e.path) /\ IsGoPath(e.path) /\ e.fault = "none"
       /\ Len(SplitOn(e.path, "/")) >= 4
       /\ \E k \in 1..Len(log[1]) : log[1][k] = Event("callback", e.path)
  /\ Len(Visited(1)) >= 3

\* A non-directory entry whose path ends in ".go" and does not contain
\* "vendor/", readable and parsable.
Eligible(e) ==
  /\ ~e.isDir
  /\ HasSuffix(e.path, kDotGo)
  /\ ~Contains(e.path, kVendorSlash)
  /\ e.fault = "none"

\* C5 as stated: every eligible entry is passed to the visitor exactly once per
\* walk, and an entry whose path does not end in ".go" never.
C5_Original ==
  \A p \in Procs :
    /\ WalkOver(p) => \A e \in Entries(p) : Eligible(e) => VisitCount(p, e.path) = 1
    /\ \A k \in 1..Len(Visited(p)) : HasSuffix(Visited(p)[k], kDotGo)

\* C5, amended: every eligible entry the walker hands to the callback is passed
\* to the visitor exactly once, which is every eligible entry of the directory
\* when the walk returns nil; no entry is passed twice; and an entry whose path
\* does not end in ".go" is never passed.
C5_EligibleVisitedOnce ==
  \A p \in Procs :
    /\ WalkOver(p) =>
         \A e \in Entries(p) :
           /\ Eligible(e) /\ walkErr[p] = NoErr => VisitCount(p, e.path) = 1
           /\ Eligible(e) /\ (\E k \in 1..Len(log[p]) : log[p][k] = Event("callback", e.path))
                => VisitCount(p, e.path) = 1
           /\ VisitCount(p, e.path) <= 1
    /\ \A k \in 1..Len(Visited(p)) : HasSuffix(Visited(p)[k], kDotGo)

\* A walk returned nil and had visited the .go file inside the hidden directory
\* and passed over the .txt file.
C5_Witness ==
  /\ pc[1] = "walked" /\ walkErr[1] = NoErr
  /\ VisitCount(1, PathOf(<<nRoot, nHidden, nA>>)) = 1
  /\ \E k \in 1..Len(log[1]) : log[1][k] = Event("callback", PathOf(<<nRoot, nB>>))

\* C6 as stated: a .go file is left out as vendored only when a directory
\* component of its path is named exactly "vendor", so that in a walk that
\* returns nil every readable, parsable .go file with no such component (one
\* under myvendor/ too) has been visited.
C6_VendorBySegment ==
  \A p \in Procs :
    WalkOver(p) /\ walkErr[p] = NoErr =>
      \A e \in Entries(p) :
        ~e.isDir /\ HasSuffix(e.path, kDotGo) /\ e.fault = "none"
          /\ nVendor \notin DirSegments(e.path)
        => VisitCount(p, e.path) = 1

\* ------------------------------------------------ properties of the positions

\* The findings invocation p has accumulated or returned that carry a Position.
Findings(p) ==
  LET all == acc[p].items \o acc[p].issues
             \o (IF pc[p] = "returned" /\ ~ret[p].result.nil
                 THEN ret[p].result.items \o ret[p].result.issues ELSE <<>>)
  IN  {all[k] : k \in {k \in 1..Len(all) : "Position" \in DOMAIN all[k]}}

\* pos is 1-based in Line and Column, names a file the walk of p visited, and
\* its Offset is the 0-based offset in that file's own bytes of column Column of
\* line Line.
PositionInFile(p, pos) ==
  /\ pos.Line >= 1
  /\ pos.Column >= 1
  /\ \E k \in 1..Len(Visited(p)) : Visited(p)[k] = pos.File
  /\ LET text == Content(pos.File).src
     IN  /\ pos.Line <= LineCount(text)
         /\ pos.Offset = NthNewline(text, pos.Line - 1) + pos.Column - 1
         /\ 0 <= pos.Offset /\ pos.Offset < Len(text)
         /\ \A i \in (NthNewline(text, pos.Line - 1) + 1)..pos.Offset : text[i] # nl

\* The finding f was found in the file its Position names: a declaration of
\* that file, or a blocking call of one, lies at the Position's offset.
FoundInItsFile(f) ==
  LET c == Content(f.Position.File)
  IN  \E k \in 1..Len(c.decls) :
        IF "Type" \in DOMAIN f /\ f.Type = "blocking_init"
        THEN \E j \in 1..Len(c.decls[k].blocking) : c.decls[k].blocking[j] = f.Position.Offset
        ELSE /\ c.decls[k].off = f.Position.Offset
             /\ "Name" \in DOMAIN f => f.Name = c.decls[k].name /\ f.Package = c.pkg
             /\ "FilePath" \in DOMAIN f => f.FilePath = f.Position.File /\ f.Package = c.pkg

IsCycleIssue(f) == "Type" \in DOMAIN f /\ f.Type = "circular_init_dependency"

PkgDirs == {<<"a">>, <<"b">>, <<"c">>}

ImportPathOf(dir) == <<"x", "/">> \o dir

\* The import lists a package can have: up to MaxImports distinct imports of
\* the module's packages, in the order the files name them.
ImportLists ==
  UNION {{q \in [1..n -> {ImportPathOf(d) : d \in PkgDirs}] :
            \A i, j \in 1..n : i # j => q[i] # q[j]} : n \in 0..MaxImports}

\* The depMap values the first pass can build: a package per directory, named
\* after it, with its imports and no dependents yet.
DepMaps ==
  {[d \in PkgDirs |-> [Package |-> d, Dir |-> d, Dependencies |-> imps[d],
                        Dependents |-> <<>>, Cycles |-> <<>>]] :
     imps \in [PkgDirs -> ImportLists]}

\* The packages of depMap whose name ends the import path, the package in dir
\* left out.
InternalTargets(m, imp, dir) ==
  {o \in DOMAIN m : HasSuffix(imp, m[o].Package) /\ o # dir}

\* One pass of the loop "for _, dep := range depMap" for the package in dir:
\* every package an import of dep names gets dep.Package appended to its
\* Dependents, once per such import.
AddDependents(m, dir) ==
  [o \in DOMAIN m |->
     [m[o] EXCEPT !.Dependents =
        @ \o [k \in 1..Cardinality({i \in 1..Len(m[dir].Dependencies) :
                                      o \in InternalTargets(m, m[dir].Dependencies[i], dir)})
                |-> m[dir].Package]]]

RECURSIVE dfs(_, _, _, _)
RECURSIVE dfsImports(_, _, _, _, _, _, _)
\* findCycles' dfs(pkg), with every range over depMap taken in the order
\* given; st holds visited, recStack, path and cycles.
dfs(pkg, m, order, st) ==
  LET st1  == [st EXCEPT !.visited = @ \cup {pkg}, !.recStack = @ \cup {pkg},
                         !.path = Append(@, pkg)]
      hits == {k \in 1..Len(order) : m[order[k]].Package = pkg}
  IN  IF hits = {}
      THEN [found |-> FALSE,
            st |-> [st1 EXCEPT !.path = SubSeq(@, 1, Len(@) - 1), !.recStack = @ \ {pkg}]]
      ELSE dfsImports(pkg, m, order, st1,
                      m[order[CHOOSE k \in hits : \A j \in hits : k <= j]], 1, 1)

\* dfs's loops over d.Dependencies (from the i-th import) and over depMap (from
\* the j-th key), and the pop that follows them.
dfsImports(pkg, m, order, st, d, i, j) ==
  IF i > Len(d.Dependencies)
  THEN [found |-> FALSE,
        st |-> [st EXCEPT !.path = SubSeq(@, 1, Len(@) - 1), !.recStack = @ \ {pkg}]]
  ELSE IF j > Len(order) THEN dfsImports(pkg, m, order, st, d, i + 1, 1)
  ELSE LET other == m[order[j]].Package
       IN  IF ~HasSuffix(d.Dependencies[i], other)
           THEN dfsImports(pkg, m, order, st, d, i, j + 1)
           ELSE IF other \notin st.visited
           THEN LET r == dfs(other, m, order, st)
                IN  IF r.found THEN r ELSE dfsImports(pkg, m, order, r.st, d, i, j + 1)
           ELSE IF other \in st.recStack
           THEN LET at == {k \in 1..Len(st.path) : st.path[k] = other}
                IN  [found |-> TRUE,
                     st |-> IF at = {} THEN st
                            ELSE [st EXCEPT !.cycles =
                                    Append(@, SubSeq(st.path,
                                                     CHOOSE k \in at : \A q \in at : k <= q,
                                                     Len(st.path)))]]
           ELSE dfsImports(pkg, m, order, st, d, i, j + 1)

\* findCycles(dep, depMap)
findCycles(dep, m, order) ==
  dfs(dep.Package, m, order,
      [visited |-> {}, recStack |-> {}, path |-> <<>>, cycles |-> <<>>]).st.cycles

\* A call of analyzeDependencies begins: the first pass has built depMap.
DepsBegin ==
  /\ dLeft = {}
  /\ dDeps = <<>>
  /\ Len(dRes) < 2
  /\ dMap' = dIn
  /\ dLeft' = DOMAIN dIn
  /\ UNCHANGED <<dIn, dDeps, dRes>>
  /\ UNCHANGED ctxVars
  /\ UNCHANGED walkVars
  /\ UNCHANGED pureVars
  /\ UNCHANGED deferVars
  /\ UNCHANGED toolVars

\* One pass of "for _, dep := range depMap", for whichever key the runtime
\* comes to next: the dependents are recorded in the map, and a copy of the
\* package as it is now is appended to deps.
DepsRange ==
  /\ dLeft # {}
  /\ \E dir \in dLeft :
       /\ dMap' = AddDependents(dMap, dir)
       /\ dDeps' = Append(dDeps, dMap[dir])
       /\ dLeft' = dLeft \ {dir}
  /\ UNCHANGED <<dIn, dRes>>
  /\ UNCHANGED ctxVars
  /\ UNCHANGED walkVars
  /\ UNCHANGED pureVars
  /\ UNCHANGED deferVars
  /\ UNCHANGED toolVars

\* The loop over deps that fills in Cycles, and the return.
DepsReturn ==
  /\ dLeft = {}
  /\ Len(dDeps) = Cardinality(DOMAIN dIn)
  /\ \E order \in RangeOrders(DOMAIN dMap) :
       dRes' = Append(dRes, [i \in 1..Len(dDeps) |->
                               [dDeps[i] EXCEPT !.Cycles = findCycles(dDeps[i], dMap, order)]])
  /\ dDeps' = <<>>
  /\ UNCHANGED <<dIn, dMap, dLeft>>
  /\ UNCHANGED ctxVars
  /\ UNCHANGED walkVars
  /\ UNCHANGED pureVars
  /\ UNCHANGED deferVars
  /\ UNCHANGED toolVars

\* analyzeDependencies is called twice over a module of three packages.
InitAnalyzeDependencies ==
  /\ CtxIdle
  /\ WalkIdle
  /\ PureIdle
  /\ DeferIdle
  /\ ToolsIdle
  /\ dIn \in DepMaps
  /\ dMap = dIn
  /\ dLeft = {}
  /\ dDeps = <<>>
  /\ dRes = <<>>

NextDeps == DepsBegin \/ DepsRange \/ DepsReturn

SpecDeps == InitAnalyzeDependencies /\ [][NextDeps]_vars

\* A DependencyInfo with its Dependents and Cycles taken as sets.
Unordered(r) ==
  [Package |-> r.Package, Dir |-> r.Dir, Dependencies |-> r.Dependencies,
   Dependents |-> {r.Dependents[k] : k \in 1..Len(r.Dependents)},
   Cycles |-> {r.Cycles[k] : k \in 1..Len(r.Cycles)}]

\* C7: two calls of analyzeDependencies over the unchanged directory return
\* the same set of DependencyInfo records, with the same Dependencies,
\* Dependents and Cycles for each package, whatever order the runtime ranges
\* over the package map in.
C7_AnalyzeDependenciesRepeatable ==
  Len(dRes) = 2 =>
    {Unordered(dRes[1][k]) : k \in 1..Len(dRes[1])}
      = {Unordered(dRes[2][k]) : k \in 1..Len(dRes[2])}

\* ------------------------------------- exprToString, funcSignature

\* Expressions are explored to this nesting depth.
MaxDepth == 1

\* The ast nodes of type expressions, as go/parser builds them.
NilNode == [kind |-> "nil"]
Ident(name) == [kind |-> "Ident", Name |-> name]
BasicLit(value) == [kind |-> "BasicLit", Value |-> value]
StarExpr(x) == [kind |-> "StarExpr", X |-> x]
SelectorExpr(x, sel) == [kind |-> "SelectorExpr", X |-> x, Sel |-> sel]
ArrayType(len, elt) == [kind |-> "ArrayType", Len |-> len, Elt |-> elt]
MapType(key, value) == [kind |-> "MapType", Key |-> key, Value |-> value]
InterfaceType(methods) == [kind |-> "InterfaceType", Methods |-> methods]
FuncType(params, results) == [kind |-> "FuncType", Params |-> params, Results |-> results]
ChanType(dir, value) == [kind |-> "ChanType", Dir |-> dir, Value |-> value]
Ellipsis(elt) == [kind |-> "Ellipsis", Elt |-> elt]
StructType == [kind |-> "StructType"]
ParenExpr(x) == [kind |-> "ParenExpr", X |-> x]
IndexExpr(x, index) == [kind |-> "IndexExpr", X |-> x, Index |-> index]
Field(names, type) == [Names |-> names, Type |-> type]
FieldList(list) == [kind |-> "FieldList", List |-> list]

sInt == <<"i", "n", "t">>
sString == <<"s", "t", "r", "i", "n", "g">>
sError == <<"e", "r", "r", "o", "r">>
sT == <<"T">>
sA == <<"a">>
sB == <<"b">>
sP == <<"p">>
sThree == <<"3">>
sUnknown == <<"u", "n", "k", "n", "o", "w", "n">>
sSpace == <<" ">>

\* chan T with every direction written out in full.
chanPrefixNoDir(dir) == <<"c", "h", "a", "n", " ">>

\* switch e.Dir { case ast.SEND ... case ast.RECV ... default ... }
chanPrefix(dir) ==
  CASE dir = "SEND" -> <<"c", "h", "a", "n", "<", "-", " ">>
    [] dir = "RECV" -> <<"<", "-", "c", "h", "a", "n", " ">>
    [] OTHER        -> <<"c", "h", "a", "n", " ">>

RECURSIVE exprToString(_)
RECURSIVE fieldListToString(_)
RECURSIVE fieldParts(_)

\* funcSignature(fn)
funcSignature(fn) ==
  LET params  == fieldListToString(fn.Params)
      results == fieldListToString(fn.Results)
  IN  IF results = <<>> THEN <<"f", "u", "n", "c", "(">> \o params \o <<")">>
      ELSE <<"f", "u", "n", "c", "(">> \o params \o <<")", " ">> \o results

\* exprToString(expr)
exprToString(e) ==
  CASE e.kind = "Ident"         -> e.Name
    [] e.kind = "StarExpr"      -> <<"*">> \o exprToString(e.X)
    [] e.kind = "SelectorExpr"  -> exprToString(e.X) \o <<".">> \o e.Sel
    [] e.kind = "ArrayType"     ->
         IF e.Len = NilNode THEN <<"[", "]">> \o exprToString(e.Elt)
         ELSE <<"[">> \o exprToString(e.Len) \o <<"]">> \o exprToString(e.Elt)
    [] e.kind = "MapType"       -> <<"m", "a", "p", "[">> \o exprToString(e.Key) \o <<"]">> \o exprToString(e.Value)
    [] e.kind = "InterfaceType" -> IF e.Methods = 0 THEN <<"i", "n", "t", "e", "r", "f", "a", "c", "e", "{", "}">> ELSE <<"i", "n", "t", "e", "r", "f", "a", "c", "e", "{", ".", ".", ".", "}">>
    [] e.kind = "FuncType"      -> funcSignature(e)
    [] e.kind = "ChanType"      -> chanPrefix(e.Dir) \o exprToString(e.Value)
    [] e.kind = "BasicLit"      -> e.Value
    [] OTHER                    -> sUnknown

\* The parts fieldListToString collects from fl.List: one per name, or the bare
\* type of a field without names.
fieldParts(list) ==
  IF list = <<>> THEN <<>>
  ELSE LET field     == Head(list)
           fieldType == exprToString(field.Type)
       IN  (IF Len(field.Names) = 0 THEN <<fieldType>>
            ELSE [k \in 1..Len(field.Names) |-> field.Names[k] \o sSpace \o fieldType])
           \o fieldParts(Tail(list))

\* fieldListToString(fl)
fieldListToString(fl) ==
  IF fl = NilNode \/ Len(fl.List) = 0 THEN <<>>
  ELSE LET parts == fieldParts(fl.List)
       IN  IF Len(parts) = 1 /\ ~Contains(parts[1], sSpace) THEN parts[1]
           ELSE <<"(">> \o Join(parts, <<",", " ">>) \o <<")">>

\* The expressions without a sub-expression of their own.
LeafExprs ==
  {Ident(sInt), Ident(sT), SelectorExpr(Ident(sP), sT), StructType,
   InterfaceType(0), InterfaceType(1)}

\* The parameter lists a function type over the type t can have.
ParamLists(t) ==
  {FieldList(<<>>), FieldList(<<Field(<<>>, t)>>), FieldList(<<Field(<<sA>>, t)>>),
   FieldList(<<Field(<<sA>>, Ident(sInt)), Field(<<sB>>, Ident(sString))>>)}

\* The function types over the types of S.
FuncTypes(S) ==
  {FuncType(ps, rs) : ps \in UNION {ParamLists(t) : t \in S}, rs \in {NilNode, FieldList(<<Field(<<>>, Ident(sError))>>)}}
    \cup {FuncType(FieldList(<<>>), FieldList(<<Field(<<>>, t)>>)) : t \in S}

RECURSIVE ExprsTo(_)
\* The type expressions nested at most d deep.
ExprsTo(d) ==
  IF d = 0 THEN LeafExprs
  ELSE LET S == ExprsTo(d - 1)
       IN  S \cup {StarExpr(x) : x \in S}
             \cup {ArrayType(NilNode, x) : x \in S}
             \cup {ArrayType(BasicLit(sThree), x) : x \in S}
             \cup {ArrayType(Ellipsis(NilNode), x) : x \in S}
             \cup {MapType(Ident(sString), x) : x \in S}
             \cup {ChanType(dir, x) : dir \in {"SEND", "RECV", "BOTH"}, x \in S}
             \cup {Ellipsis(x) : x \in S}
             \cup {ParenExpr(x) : x \in S}
             \cup {IndexExpr(x, Ident(sInt)) : x \in S}
             \cup FuncTypes(S)

Exprs == ExprsTo(MaxDepth)

\* The field lists fieldListToString is explored on: none, an empty one, one
\* entry without a name, with one and with two names, and two entries, without
\* and with names.
FieldLists ==
  {NilNode, FieldList(<<>>)}
    \cup {FieldList(<<Field(ns, t)>>) : ns \in {<<>>, <<sA>>, <<sA, sB>>}, t \in Exprs}
    \cup {FieldList(<<Field(<<>>, t), Field(<<>>, Ident(sError))>>) : t \in Exprs}
    \cup {FieldList(<<Field(<<sA>>, t), Field(<<sB>>, Ident(sString))>>) : t \in Exprs}

\* A helper is called on its arguments.
CallExprToString ==
  /\ pFn = "exprToString" /\ pOut = <<>>
  /\ pOut' = <<exprToString(pArg)>>
  /\ UNCHANGED <<pFn, pArg>>
  /\ UNCHANGED ctxVars
  /\ UNCHANGED walkVars
  /\ UNCHANGED depVars
  /\ UNCHANGED deferVars
  /\ UNCHANGED toolVars

CallFuncSignature ==
  /\ pFn = "funcSignature" /\ pOut = <<>>
  /\ pOut' = <<funcSignature(pArg)>>
  /\ UNCHANGED <<pFn, pArg>>
  /\ UNCHANGED ctxVars
  /\ UNCHANGED walkVars
  /\ UNCHANGED depVars
  /\ UNCHANGED deferVars
  /\ UNCHANGED toolVars

CallFieldListToString ==
  /\ pFn = "fieldListToString" /\ pOut = <<>>
  /\ pOut' = <<fieldListToString(pArg)>>
  /\ UNCHANGED <<pFn, pArg>>
  /\ UNCHANGED ctxVars
  /\ UNCHANGED walkVars
  /\ UNCHANGED depVars
  /\ UNCHANGED deferVars
  /\ UNCHANGED toolVars

\* The names and the patterns matchesPattern is explored on.
MatchNames == {<<"H", "a", "n", "d", "l", "e", "R", "e", "q", "u", "e", "s", "t">>, <<"F", "o", "o">>, <<"h", "a", "n", "d", "l", "e">>, <<"e", "r", "r">>}

MatchPatterns ==
  {<<>>, <<"h", "a", "n", "d", "l", "e">>, <<"H", "a", "n", "d", "l", "e">>, <<"R", "E", "Q">>, <<"x", "y", "z">>, <<"f", "o", "o">>, <<"o", "O">>, <<"r">>, <<"H", "a", "n", "d", "l", "e", "R", "e", "q", "u", "e", "s", "t", "X">>}

CallMatchesPattern ==
  /\ pFn = "matchesPattern" /\ pOut = <<>>
  /\ pOut' = <<matchesPattern(pArg[1], pArg[2])>>
  /\ UNCHANGED <<pFn, pArg>>
  /\ UNCHANGED ctxVars
  /\ UNCHANGED walkVars
  /\ UNCHANGED depVars
  /\ UNCHANGED deferVars
  /\ UNCHANGED toolVars


\* C11 as stated: funcSignature renders a function type with one unnamed int
\* parameter and no result as "func(int)", and one with the parameters
\* (a int, b string) and the result error as "func(a int, b string) error".
C11_FuncSignatureExamples ==
  pFn = "funcSignature" /\ pOut # <<>> =>
    /\ pArg = FuncType(FieldList(<<Field(<<>>, Ident(sInt))>>), NilNode)
         => pOut[1] = <<"f", "u", "n", "c", "(", "i", "n", "t", ")">>
    /\ pArg = FuncType(FieldList(<<Field(<<sA>>, Ident(sInt)), Field(<<sB>>, Ident(sString))>>),
                       FieldList(<<Field(<<>>, Ident(sError))>>))
         => pOut[1] = <<"f", "u", "n", "c", "(", "a", " ", "i", "n", "t", ",", " ", "b", " ", "s", "t", "r", "i", "n", "g", ")", " ", "e", "r", "r", "o", "r">>

\* C12 as stated: fieldListToString renders a list of a single parameter
\* without a name bare, whatever its type, and every other list that is not
\* empty in parentheses, its entries ("name type", or the bare type of an entry
\* without a name) joined by ", ".
C12_FieldListRendering ==
  pFn = "fieldListToString" /\ pOut # <<>> /\ pArg # NilNode =>
    LET list == pArg.List
    IN  IF list = <<>> THEN TRUE
        ELSE IF Len(list) = 1 /\ list[1].Names = <<>>
        THEN pOut[1] = exprToString(list[1].Type)
        ELSE pOut[1] = <<"(">> \o Join(fieldParts(list), <<",", " ">>) \o <<")">>

NoCaseKinds == {"Ellipsis", "StructType", "ParenExpr", "IndexExpr"}

\* C13: exprToString returns a string for every expression, nested ones too;
\* a kind it has no case for (an ellipsis, a struct, a parenthesised or an
\* index expression) renders as "unknown", and a pointer, a slice, an array,
\* a map, a qualified identifier and a channel of each direction render as
\* *T, []T, [N]T, map[K]V, pkg.Name, chan T, chan<- T and <-chan T.
C13_ExprToStringTotal ==
  pFn = "exprToString" /\ pOut # <<>> =>
    LET e == pArg
        out == pOut[1]
    IN  /\ out # <<>>
        /\ e.kind \in NoCaseKinds => out = sUnknown
        /\ e.kind = "StarExpr" => out = <<"*">> \o exprToString(e.X)
        /\ e.kind = "ArrayType" /\ e.Len = NilNode => out = <<"[", "]">> \o exprToString(e.Elt)
        /\ e.kind = "ArrayType" /\ e.Len # NilNode
             => out = <<"[">> \o exprToString(e.Len) \o <<"]">> \o exprToString(e.Elt)
        /\ e.kind = "ArrayType" /\ e.Len = BasicLit(sThree) /\ e.Elt = Ident(sInt)
             => out = <<"[", "3", "]", "i", "n", "t">>
        /\ e.kind = "MapType"
             => out = <<"m", "a", "p", "[">> \o exprToString(e.Key) \o <<"]">> \o exprToString(e.Value)
        /\ e.kind = "SelectorExpr" => out = exprToString(e.X) \o <<".">> \o e.Sel
        /\ e = SelectorExpr(Ident(sP), sT) => out = <<"p", ".", "T">>
        /\ e.kind = "ChanType" /\ e.Dir = "BOTH" => out = <<"c", "h", "a", "n", " ">> \o exprToString(e.Value)
        /\ e.kind = "ChanType" /\ e.Dir = "SEND" => out = <<"c", "h", "a", "n", "<", "-", " ">> \o exprToString(e.Value)
        /\ e.kind = "ChanType" /\ e.Dir = "RECV" => out = <<"<", "-", "c", "h", "a", "n", " ">> \o exprToString(e.Value)

\* exprToString was called on a receive-only channel of a type it has no case
\* for.
C13_Witness ==
  /\ pFn = "exprToString"
  /\ pArg.kind = "ChanType" /\ pArg.Dir = "RECV" /\ pArg.Value.kind \in NoCaseKinds
  /\ pOut = <<<<"<", "-", "c", "h", "a", "n", " ", "u", "n", "k", "n", "o", "w", "n">>>>

\* C14: matchesPattern(name, pattern) is true exactly when pattern is empty or
\* pattern occurs in name with the case of the letters ignored;
\* ("HandleRequest", "handle") and ("HandleRequest", "") are true and
\* ("Foo", "xyz") is false.
C14_MatchesPattern ==
  pFn = "matchesPattern" /\ pOut # <<>> =>
    LET name    == pArg[1]
        pattern == pArg[2]
    IN  /\ pOut[1] <=>
             \/ pattern = <<>>
             \/ \E i \in 0..(Len(name) - Len(pattern)) :
                  \A k \in 1..Len(pattern) : LowerChar(name[i + k]) = LowerChar(pattern[k])
        /\ name = <<"H", "a", "n", "d", "l", "e", "R", "e", "q", "u", "e", "s", "t">> /\ pattern = <<"h", "a", "n", "d", "l", "e">> => pOut[1]
        /\ name = <<"H", "a", "n", "d", "l", "e", "R", "e", "q", "u", "e", "s", "t">> /\ pattern = <<>> => pOut[1]
        /\ name = <<"F", "o", "o">> /\ pattern = <<"x", "y", "z">> => ~pOut[1]

\* matchesPattern found a pattern in a name that has it in another case.
C14_Witness ==
  /\ pFn = "matchesPattern"
  /\ pArg = <<<<"H", "a", "n", "d", "l", "e", "R", "e", "q", "u", "e", "s", "t">>, <<"R", "E", "Q">>>>
  /\ pOut = <<TRUE>>


\* ------------------------------------------ findSymbols with the empty pattern

\* findSymbols(dir, "") returned a Symbol for the declaration d of the file at
\* path.
Returned(p, path, d) ==
  \E k \in 1..Len(ret[p].result.items) :
    LET sym == ret[p].result.items[k]
    IN  /\ sym.Name = d.name
        /\ sym.Type = SymbolType(d.kind)
        /\ sym.Position.File = path
        /\ sym.Position.Offset = d.off

EmptyPatternReturned(p) ==
  /\ analyzer[p].kind = "findSymbols"
  /\ analyzer[p].pattern = <<>>
  /\ pc[p] = "returned"

\* C15 as stated: findSymbols called with the empty pattern returns every
\* function, type, constant and variable declaration of every file the walker
\* visits.
C15_Original ==
  \A p \in Procs :
    EmptyPatternReturned(p) =>
      \A k \in 1..Len(Visited(p)) :
        \A j \in 1..Len(Content(Visited(p)[k]).decls) :
          Returned(p, Visited(p)[k], Content(Visited(p)[k]).decls[j])

\* C15, amended: findSymbols called with the empty pattern returns every
\* function, type, constant and variable declaration of every file the walker
\* visits whose path does not end in "_test.go", and no declaration of a file
\* whose path does.
C15_EmptyPatternKeepsAll ==
  \A p \in Procs :
    EmptyPatternReturned(p) =>
      \A k \in 1..Len(Visited(p)) :
        \A j \in 1..Len(Content(Visited(p)[k]).decls) :
          Returned(p, Visited(p)[k], Content(Visited(p)[k]).decls[j])
            <=> ~HasSuffix(Visited(p)[k], kTestGo)

\* findSymbols(dir, "") returned after the walker visited a file declaring a
\* type and a variable, a file declaring a constant and a function, and a test
\* file.
C15_Witness ==
  /\ EmptyPatternReturned(1)
  /\ ret[1].err = NoErr
  /\ VisitCount(1, PathOf(<<nRoot, nHidden, nA>>)) = 1
  /\ VisitCount(1, PathOf(<<nRoot, nVendorGo>>)) = 1
  /\ VisitCount(1, PathOf(<<nRoot, nTTest>>)) = 1
  /\ Len(ret[1].result.items) >= 4


\* ------------------------------------------------------- the walk reads only

\* What a running invocation does to the directory: it calls the callback for
\* an entry, reads a file, and works on what it read.
ReadingOps == {"callback", "callbackErr", "read", "parse", "visit"}

\* C21: an analyzer invocation built on walkGoFiles leaves the directory as it
\* found it from its start to its return, failed or not: no step of a running
\* invocation changes the directory, all it does to an entry is to stat, list
\* or read it, the bytes its visitor is handed are the bytes of the file, and a
\* second call over the same directory returns what a call by itself returns
\* there.
C21_WalkReadsOnly ==
  /\ [][\A p \in Procs : pc[p] # "idle" => fsys'[p] = fsys[p]]_vars
  /\ [](\A p \in Procs :
          /\ \A k \in 1..Len(log[p]) : log[p][k][1] \in ReadingOps
          /\ pc[p] = "visit" => src[p] = Content(Entry(p).path).src
          /\ pc[p] = "returned" => ret[p] \in ReturnsAlone(analyzer[p], fsys[p]))

\* A call failed on a directory that could not be listed after it had visited
\* a file, and the second call over the same directory has returned too.
C21_Witness ==
  /\ pc[1] = "returned" /\ pc[2] = "returned"
  /\ fsys[2] = fsys[1]
  /\ ret[1].err # NoErr
  /\ Len(Visited(1)) >= 1


\* ---------------------------------------------------------------- getTypeInfo

\* getTypeInfo(dir, typeName) returned.
TypeLookupReturned(p) == analyzer[p].kind = "getTypeInfo" /\ pc[p] = "returned"

\* The type declarations named typeName of the file at path.
TypeDecls(path, typeName) ==
  {j \in 1..Len(Content(path).decls) :
     Content(path).decls[j].kind = "type" /\ Content(path).decls[j].name = typeName}

\* Where in the order of its visits the walk of p visited a file declaring the
\* type looked for.
DeclaringVisits(p) ==
  {k \in 1..Len(Visited(p)) : TypeDecls(Visited(p)[k], analyzer[p].pattern) # {}}

\* The result of p is the TypeInfo of the first declaration of the type in
\* the first file declaring it.
ReturnsFirstDeclaration(p) ==
  LET k    == CHOOSE i \in DeclaringVisits(p) : \A j \in DeclaringVisits(p) : i <= j
      path == Visited(p)[k]
      d    == Content(path).decls[CHOOSE i \in TypeDecls(path, analyzer[p].pattern) :
                                    \A j \in TypeDecls(path, analyzer[p].pattern) : i <= j]
  IN  /\ ~ret[p].result.nil
      /\ Len(ret[p].result.items) = 1
      /\ ret[p].result.items[1].Name = analyzer[p].pattern
      /\ ret[p].result.items[1].Package = Content(path).pkg
      /\ ret[p].result.items[1].Position.File = path
      /\ ret[p].result.items[1].Position.Offset = d.off

\* findSymbols returned after a walk that finished without error and met no
\* declaration matching the pattern.
NothingMatched(p) ==
  /\ analyzer[p].kind = "findSymbols"
  /\ pc[p] = "returned"
  /\ walkErr[p] = NoErr
  /\ \A k \in 1..Len(Visited(p)) :
       \A j \in 1..Len(Content(Visited(p)[k]).decls) :
         ~matchesPattern(Content(Visited(p)[k]).decls[j].name, analyzer[p].pattern)

\* C20 as stated: getTypeInfo returns no result and a "type X not found" error
\* exactly when the walk finished without error and no visited file declares a
\* type named X; when a visited file declares one it returns the first
\* declaration in traversal order and a nil error; findSymbols returns an empty
\* list and a nil error after a walk without error in which nothing matched.
C20_Original ==
  \A p \in Procs :
    /\ TypeLookupReturned(p) =>
         /\ (ret[p].result = NilResult /\ ret[p].err = NotFoundErr(analyzer[p].pattern))
              <=> (walkErr[p] = NoErr /\ DeclaringVisits(p) = {})
         /\ DeclaringVisits(p) # {} => ReturnsFirstDeclaration(p) /\ ret[p].err = NoErr
    /\ NothingMatched(p) =>
         ret[p].result = Result(<<>>, <<>>, <<>>) /\ ret[p].err = NoErr

\* C20, amended: getTypeInfo returns no result and a "type X not found" error
\* exactly when the walk finished without error and no visited file declares a
\* type named X; when a visited file declares one it returns the first
\* declaration in traversal order together with the walk's error, which is nil
\* only if the walk finished without error; when the walk failed before any
\* declaration it returns no result and the walk's error; findSymbols returns
\* an empty list and a nil error after a walk without error in which nothing
\* matched.
C20_TypeLookup ==
  \A p \in Procs :
    /\ TypeLookupReturned(p) =>
         /\ (ret[p].result = NilResult /\ ret[p].err = NotFoundErr(analyzer[p].pattern))
              <=> (walkErr[p] = NoErr /\ DeclaringVisits(p) = {})
         /\ DeclaringVisits(p) # {} => ReturnsFirstDeclaration(p) /\ ret[p].err = walkErr[p]
         /\ DeclaringVisits(p) = {} /\ walkErr[p] # NoErr =>
              ret[p].result = NilResult /\ ret[p].err = walkErr[p]
    /\ NothingMatched(p) =>
         ret[p].result = Result(<<>>, <<>>, <<>>) /\ ret[p].err = NoErr

\* getTypeInfo returned after its walk visited two files declaring the type and
\* then failed.
C20_Witness ==
  /\ TypeLookupReturned(1)
  /\ Cardinality(DeclaringVisits(1)) = 2
  /\ walkErr[1] # NoErr
  /\ ~ret[1].result.nil

\* ------------------------------------------------- containsNode, isInLoop

\* The nodes of a parsed file, numbered in the order ast.Inspect reaches them:
\*
\*   func f() { g(); for { g() }; for range xs { go func() { g() }() } }
\*   func h() { g() }
\*
\* A node is its number (its identity); its kind, its name if it is an
\* identifier, and its children in source order.
AstKind ==
  <<"File",
    "FuncDecl", "Ident", "BlockStmt",
    "ExprStmt", "CallExpr", "Ident",
    "ForStmt", "BlockStmt", "ExprStmt", "CallExpr", "Ident",
    "RangeStmt", "Ident", "BlockStmt", "GoStmt", "CallExpr", "FuncLit", "BlockStmt",
    "ExprStmt", "CallExpr", "Ident",
    "FuncDecl", "Ident", "BlockStmt", "ExprStmt", "CallExpr", "Ident">>

AstName ==
  <<"", "", "f", "", "", "", "g", "", "", "", "", "g", "", "xs", "", "", "", "", "",
    "", "", "g", "", "h", "", "", "", "g">>

AstChildren ==
  <<<<2, 23>>,
    <<3, 4>>, <<>>, <<5, 8, 13>>,
    <<6>>, <<7>>, <<>>,
    <<9>>, <<10>>, <<11>>, <<12>>, <<>>,
    <<14, 15>>, <<>>, <<16>>, <<17>>, <<18>>, <<19>>, <<20>>,
    <<21>>, <<22>>, <<>>,
    <<24, 25>>, <<>>, <<26>>, <<27>>, <<28>>, <<>>>>

AstNodes == 1..Len(AstKind)

\* The *ast.File of the nodes.
AstFile == CHOOSE n \in AstNodes : AstKind[n] = "File"

RECURSIVE ShapeOf(_)
\* What a node looks like: two nodes of the same shape are structurally
\* identical.
ShapeOf(n) ==
  <<AstKind[n], AstName[n], [k \in 1..Len(AstChildren[n]) |-> ShapeOf(AstChildren[n][k])]>>

\* n == child on nodes that only look alike.
sameShape(n, child) == ShapeOf(n) = ShapeOf(child)

\* n == child: the two interface values hold the same pointer.
sameNode(n, child) == n = child

RECURSIVE inspectContains(_, _, _)
\* containsNode's ast.Inspect: the nodes still to be reached, in pre-order; the
\* callback returns false at child, so that its children are not entered, and
\* true elsewhere.
inspectContains(todo, child, found) ==
  IF todo = <<>> THEN found
  ELSE IF sameNode(Head(todo), child) THEN inspectContains(Tail(todo), child, TRUE)
  ELSE inspectContains(AstChildren[Head(todo)] \o Tail(todo), child, found)

\* containsNode(parent, child)
containsNode(parent, child) == inspectContains(<<parent>>, child, FALSE)

\* Every statement taken for a loop.
isLoopAny(n) == AstKind[n] \in {"ForStmt", "RangeStmt", "BlockStmt"}

\* case *ast.ForStmt, *ast.RangeStmt
isLoop(n) == AstKind[n] \in {"ForStmt", "RangeStmt"}

RECURSIVE inspectLoops(_, _, _)
\* isInLoop's ast.Inspect: at a loop that contains target the callback sets
\* inLoop and returns false; elsewhere it returns true.
inspectLoops(todo, target, inLoop) ==
  IF todo = <<>> THEN inLoop
  ELSE IF isLoop(Head(todo)) /\ containsNode(Head(todo), target)
  THEN inspectLoops(Tail(todo), target, TRUE)
  ELSE inspectLoops(AstChildren[Head(todo)] \o Tail(todo), target, inLoop)

\* isInLoop(file, target)
isInLoop(root, target) == inspectLoops(<<root>>, target, FALSE)

CallContainsNode ==
  /\ pFn = "containsNode" /\ pOut = <<>>
  /\ pOut' = <<containsNode(pArg[1], pArg[2])>>
  /\ UNCHANGED <<pFn, pArg>>
  /\ UNCHANGED ctxVars
  /\ UNCHANGED walkVars
  /\ UNCHANGED depVars
  /\ UNCHANGED deferVars
  /\ UNCHANGED toolVars

CallIsInLoop ==
  /\ pFn = "isInLoop" /\ pOut = <<>>
  /\ pOut' = <<isInLoop(AstFile, pArg[1])>>
  /\ UNCHANGED <<pFn, pArg>>
  /\ UNCHANGED ctxVars
  /\ UNCHANGED walkVars
  /\ UNCHANGED depVars
  /\ UNCHANGED deferVars
  /\ UNCHANGED toolVars

\* The node n is a child of, when it is not the file.
ParentOf(n) ==
  CHOOSE q \in AstNodes : \E k \in 1..Len(AstChildren[q]) : AstChildren[q][k] = n

RECURSIVE Enclosing(_)
\* n and the nodes around it, out to the file.
Enclosing(n) == IF n = AstFile THEN {n} ELSE {n} \cup Enclosing(ParentOf(n))

\* C16: containsNode(parent, child) is true exactly when child is parent or a
\* node of parent's subtree, by identity: it is false for a node outside the
\* subtree that looks the same as one inside.
C16_ContainsNode ==
  pFn = "containsNode" /\ pOut # <<>> =>
    /\ pOut[1] <=> pArg[1] \in Enclosing(pArg[2])
    /\ (\E n \in AstNodes : ShapeOf(n) = ShapeOf(pArg[2]) /\ pArg[1] \in Enclosing(n))
         /\ pArg[1] \notin Enclosing(pArg[2])
         => ~pOut[1]

\* containsNode was asked whether the for statement contains the call g() of
\* h, which looks the same as the call in the loop, and said no.
C16_Witness ==
  /\ pFn = "containsNode"
  /\ AstKind[pArg[1]] = "ForStmt"
  /\ AstKind[pArg[2]] = "CallExpr"
  /\ pArg[1] \notin Enclosing(pArg[2])
  /\ \E n \in AstNodes : n # pArg[2] /\ ShapeOf(n) = ShapeOf(pArg[2]) /\ pArg[1] \in Enclosing(n)
  /\ pOut = <<FALSE>>

\* C17: isInLoop(file, target) is true exactly when target is in the subtree
\* of a for or a range statement of the file: true for a call in a loop, false
\* for a call that looks the same and is in no loop.
C17_IsInLoop ==
  pFn = "isInLoop" /\ pOut # <<>> =>
    pOut[1] <=> \E n \in Enclosing(pArg[1]) : AstKind[n] \in {"ForStmt", "RangeStmt"}

\* isInLoop said no for a call that is in no loop and looks the same as a call
\* in a loop, for which it says yes.
C17_Witness ==
  /\ pFn = "isInLoop"
  /\ AstKind[pArg[1]] = "CallExpr"
  /\ pOut = <<FALSE>>
  /\ \E n \in AstNodes :
       /\ n # pArg[1] /\ ShapeOf(n) = ShapeOf(pArg[1])
       /\ isInLoop(AstFile, n)
       /\ \E q \in Enclosing(n) : AstKind[q] = "ForStmt"


\* ------------------------------------------------------------ isErrorCheck

BinaryExpr(op, x, y) == [kind |-> "BinaryExpr", Op |-> op, X |-> x, Y |-> y]
CallExpr(fun) == [kind |-> "CallExpr", Fun |-> fun]
IfStmt(cond) == [kind |-> "IfStmt", Cond |-> cond]

sErr == <<"e", "r", "r">>
sNil == <<"n", "i", "l">>

\* binExpr.Op taken for != when it is any comparison.
isNEQAnyComparison(op) == op \in {"!=", "=="}

\* binExpr.Op == token.NEQ
isNEQ(op) == op = "!="

\* isErrorCheck(ifStmt)
isErrorCheck(ifStmt) ==
  LET binExpr == ifStmt.Cond
  IN  /\ binExpr.kind = "BinaryExpr"
      /\ isNEQ(binExpr.Op)
      /\ binExpr.X.kind = "Ident"
      /\ (binExpr.X.Name = sErr \/ Contains(binExpr.X.Name, sError))
      /\ binExpr.Y.kind = "Ident"
      /\ binExpr.Y.Name = sNil

\* The operands of the conditions isErrorCheck is explored on: identifiers
\* (err, nil, names with and without "error" in them), a call, a qualified
\* identifier and a parenthesised comparison.
CondOperands ==
  {Ident(sErr), Ident(sNil), Ident(<<"m", "y", "e", "r", "r", "o", "r">>), Ident(<<"e", "r", "r", "o", "r", "s">>), Ident(<<"e">>),
   Ident(<<"m", "y", "E", "r", "r", "o", "r">>), Ident(<<"e", "r">>),
   CallExpr(Ident(<<"f">>)), SelectorExpr(Ident(<<"r">>), sErr),
   ParenExpr(BinaryExpr("!=", Ident(sErr), Ident(sNil)))}

\* The if statements isErrorCheck is explored on: a comparison or a compound of
\* two operands, two comparisons joined by && or ||, and a bare operand.
IfStmts ==
  {IfStmt(BinaryExpr(op, x, y)) : op \in {"!=", "==", "&&", "<"}, x \in CondOperands, y \in CondOperands}
    \cup {IfStmt(BinaryExpr(op, BinaryExpr("!=", Ident(sErr), Ident(sNil)), y)) :
            op \in {"&&", "||", "!="}, y \in CondOperands}
    \cup {IfStmt(x) : x \in CondOperands}

CallIsErrorCheck ==
  /\ pFn = "isErrorCheck" /\ pOut = <<>>
  /\ pOut' = <<isErrorCheck(pArg)>>
  /\ UNCHANGED <<pFn, pArg>>
  /\ UNCHANGED ctxVars
  /\ UNCHANGED walkVars
  /\ UNCHANGED depVars
  /\ UNCHANGED deferVars
  /\ UNCHANGED toolVars

\* The identifiers named err or with "error" in their name.
ErrorNames == {sErr, <<"m", "y", "e", "r", "r", "o", "r">>, <<"e", "r", "r", "o", "r", "s">>}

\* C18: isErrorCheck(ifStmt) is true exactly when the condition is one !=
\* comparison of an identifier named err, or with "error" in its name, on the
\* left with the identifier nil on the right; err == nil, nil != err, a
\* compound condition and a call give false.
C18_IsErrorCheck ==
  pFn = "isErrorCheck" /\ pOut # <<>> =>
    /\ pOut[1] <=> pArg.Cond \in {BinaryExpr("!=", Ident(n), Ident(sNil)) : n \in ErrorNames}
    /\ pArg.Cond = BinaryExpr("==", Ident(sErr), Ident(sNil)) => ~pOut[1]
    /\ pArg.Cond = BinaryExpr("!=", Ident(sNil), Ident(sErr)) => ~pOut[1]
    /\ pArg.Cond.kind = "BinaryExpr" /\ pArg.Cond.Op \in {"&&", "||"} => ~pOut[1]
    /\ pArg.Cond.kind = "CallExpr" => ~pOut[1]

\* isErrorCheck said yes to "if myerror != nil".
C18_Witness ==
  /\ pFn = "isErrorCheck"
  /\ pArg = IfStmt(BinaryExpr("!=", Ident(<<"m", "y", "e", "r", "r", "o", "r">>), Ident(sNil)))
  /\ pOut = <<TRUE>>


\* ----------------------------------------------------- analyzeDeferPatterns

\* A function is explored with up to this many assignments and defers.
MaxStmts == 2

\* strings.HasPrefix
HasPrefix(s, prefix) == Len(s) >= Len(prefix) /\ SubSeq(s, 1, Len(prefix)) = prefix

\* The statements of the functions explored: v := x.Method(), defer v.Method()
\* and go func() { ... }(), each on a line of its own.
AssignStmt(v, method) == [kind |-> "AssignStmt", Var |-> v, Method |-> method, Line |-> 0]
DeferStmt(v, method) == [kind |-> "DeferStmt", Var |-> v, Method |-> method, Line |-> 0]
FuncLit(body) == [kind |-> "FuncLit", Body |-> body]
GoStmt(body, line) == [kind |-> "GoStmt", Lit |-> FuncLit(body), Line |-> line]
FuncDecl(name, body) == [kind |-> "FuncDecl", Name |-> name, Body |-> body]

sOpen == <<"O", "p", "e", "n">>
sNew == <<"N", "e", "w">>
sClose == <<"C", "l", "o", "s", "e">>
sFlush == <<"F", "l", "u", "s", "h">>

\* f := x.Open(), g := x.NewG(), f := x.Read(), defer f.Close(), defer f.Flush()
SimpleStmts ==
  {AssignStmt("f", sOpen), AssignStmt("g", <<"N", "e", "w", "G">>), AssignStmt("f", <<"R", "e", "a", "d">>),
   DeferStmt("f", sClose), DeferStmt("f", sFlush)}

\* The statements q on the lines from the given one on.
Numbered(q, from) == [k \in 1..Len(q) |-> [q[k] EXCEPT !.Line = from + k - 1]]

\* The function bodies explored: up to MaxStmts statements, without or with a
\* go statement whose function literal holds some of them.
FuncBodies ==
  LET lens == {t \in (0..MaxStmts) \X (0..MaxStmts) \X (0..MaxStmts) :
                 t[1] + t[2] + t[3] <= MaxStmts}
  IN  {Numbered(q, 1) : q \in UNION {[1..n -> SimpleStmts] : n \in 0..MaxStmts}}
        \cup UNION {{Numbered(pre, 1)
                       \o <<GoStmt(Numbered(lit, Len(pre) + 2), Len(pre) + 1)>>
                       \o Numbered(post, Len(pre) + Len(lit) + 2) :
                        pre \in [1..t[1] -> SimpleStmts], lit \in [1..t[2] -> SimpleStmts],
                        post \in [1..t[3] -> SimpleStmts]} : t \in lens}

\* fset.Position of the statement on a line, in a file of one-byte lines.
StmtPosition(line) ==
  [File |-> PathOf(<<nRoot, nA>>), Line |-> line, Column |-> 1, Offset |-> (line - 1) + (line - 1)]

\* The nodes ast.Inspect enters below a node (identifiers and calls, which no
\* callback here acts on, left out).
InspectChildren(n) ==
  CASE n.kind \in {"FuncDecl", "FuncLit"} -> n.Body
    [] n.kind = "GoStmt" -> <<n.Lit>>
    [] OTHER -> <<>>

RECURSIVE InspectAll(_)
\* The nodes ast.Inspect reaches from the nodes given when the callback always
\* returns true, in its order.
InspectAll(todo) ==
  IF todo = <<>> THEN <<>>
  ELSE <<Head(todo)>> \o InspectAll(InspectChildren(Head(todo)) \o Tail(todo))

RECURSIVE InspectOwn(_)
\* The same when the callback returns false at a function literal.
InspectOwn(todo) ==
  IF todo = <<>> THEN <<>>
  ELSE IF Head(todo).kind = "FuncLit" THEN <<Head(todo)>> \o InspectOwn(Tail(todo))
  ELSE <<Head(todo)>> \o InspectOwn(InspectChildren(Head(todo)) \o Tail(todo))

resourceMethods == <<sOpen, <<"C", "r", "e", "a", "t", "e">>, <<"D", "i", "a", "l">>, <<"C", "o", "n", "n", "e", "c", "t">>, <<"L", "o", "c", "k">>, <<"R", "L", "o", "c", "k">>, <<"B", "e", "g", "i", "n">>>>

\* isResourceAcquisition, for the call x.Method()
isResourceAcquisition(method) ==
  \E k \in 1..Len(resourceMethods) :
    method = resourceMethods[k] \/ HasPrefix(method, sOpen) \/ HasPrefix(method, sNew)

\* extractDeferredResourceVar, for the call v.Method()
extractDeferredResourceVar(d) ==
  IF d.Method \in {sClose, <<"U", "n", "l", "o", "c", "k">>, <<"R", "U", "n", "l", "o", "c", "k">>, <<"D", "o", "n", "e">>, <<"R", "e", "l", "e", "a", "s", "e">>} THEN d.Var ELSE ""

\* The nodes checkMissingDefers' ast.Inspect(fn.Body, ...) reaches: its callback
\* always returns true.
checkedNodes(body) == InspectAll(body)

\* checkMissingDefers: the issues appended, the resources map ranged over in
\* the order given. An issue's Description is kept as the resource it names.
checkMissingDefers(body, order) ==
  LET nodes     == checkedNodes(body)
      acquired  == {k \in 1..Len(nodes) :
                      nodes[k].kind = "AssignStmt" /\ isResourceAcquisition(nodes[k].Method)}
      resources == [v \in {nodes[k].Var : k \in acquired} |->
                      nodes[CHOOSE k \in acquired :
                              /\ nodes[k].Var = v
                              /\ \A j \in acquired : nodes[j].Var = v => j <= k].Line]
      deferred  == {extractDeferredResourceVar(nodes[k]) :
                      k \in {j \in 1..Len(nodes) : nodes[j].kind = "DeferStmt"}} \ {""}
      missing   == SelectSeq(order, LAMBDA v : v \notin deferred)
  IN  [k \in 1..Len(missing) |->
         [Type |-> "missing_defer", Description |-> missing[k],
          Position |-> newPosition(StmtPosition(resources[missing[k]]))]]

\* The keys of the resources map checkMissingDefers collects for a function body.
ResourcesOf(body) ==
  {checkedNodes(body)[k].Var :
     k \in {j \in 1..Len(checkedNodes(body)) :
              /\ checkedNodes(body)[j].kind = "AssignStmt"
              /\ isResourceAcquisition(checkedNodes(body)[j].Method)}}

\* areDefersDependentWrongOrder
areDefersDependentWrongOrder(first, second) ==
  \/ first.Method = sClose /\ second.Method = sFlush
  \/ first.Method = <<"L", "o", "c", "k">> /\ second.Method = <<"U", "n", "l", "o", "c", "k">>
  \/ first.Method = <<"A", "d", "d">> /\ second.Method = <<"D", "o", "n", "e">>

\* checkDeferOrdering: an issue for every pair of defers in the wrong order.
checkDeferOrdering(defers) ==
  LET pairs == {p \in (1..Len(defers)) \X (1..Len(defers)) :
                  p[1] < p[2] /\ areDefersDependentWrongOrder(defers[p[1]], defers[p[2]])}
      RECURSIVE inOrder(_)
      inOrder(ps) ==
        IF ps = {} THEN <<>>
        ELSE LET p == CHOOSE q \in ps : \A r \in ps : q[1] < r[1] \/ (q[1] = r[1] /\ q[2] <= r[2])
             IN  <<[Type |-> "defer_order_issue", Description |-> "",
                    Position |-> newPosition(StmtPosition(defers[p[2]].Line))]>>
                 \o inOrder(ps \ {p})
  IN  inOrder(pairs)

\* analyzeFunctionDefers: the issues it appends for a function with this body,
\* which has no return statement.
analyzeFunctionDefers(body, order) ==
  LET defers == SelectSeq(InspectOwn(body), LAMBDA n : n.kind = "DeferStmt")
  IN  (IF Len(defers) > 1 THEN checkDeferOrdering(defers) ELSE <<>>)
        \o checkMissingDefers(body, order)

\* case *ast.FuncDecl of analyzeDeferPatterns' ast.Inspect
InspectFuncDecl ==
  /\ dfTodo # <<>> /\ Head(dfTodo).kind = "FuncDecl"
  /\ dfFunc' = Head(dfTodo).Name
  /\ \E order \in RangeOrders(ResourcesOf(Head(dfTodo).Body)) :
       dfIssues' = dfIssues \o analyzeFunctionDefers(Head(dfTodo).Body, order)
  /\ dfTodo' = InspectChildren(Head(dfTodo)) \o Tail(dfTodo)
  /\ UNCHANGED <<dfBody, dfDefers, dfDone>>
  /\ UNCHANGED <<ctxVars, walkVars, depVars, pureVars>>
  /\ UNCHANGED toolVars

\* case *ast.FuncLit
InspectFuncLit ==
  /\ dfTodo # <<>> /\ Head(dfTodo).kind = "FuncLit"
  /\ dfFunc' = "anonymous function"
  /\ \E order \in RangeOrders(ResourcesOf(Head(dfTodo).Body)) :
       dfIssues' = dfIssues \o analyzeFunctionDefers(Head(dfTodo).Body, order)
  /\ dfTodo' = InspectChildren(Head(dfTodo)) \o Tail(dfTodo)
  /\ UNCHANGED <<dfBody, dfDefers, dfDone>>
  /\ UNCHANGED <<ctxVars, walkVars, depVars, pureVars>>
  /\ UNCHANGED toolVars

\* case *ast.DeferStmt: the defer is recorded; it is in no loop, its call has no
\* argument and no return statement follows it, so that no issue is appended.
InspectDeferStmt ==
  /\ dfTodo # <<>> /\ Head(dfTodo).kind = "DeferStmt"
  /\ dfDefers' = Append(dfDefers, [Var |-> Head(dfTodo).Var, Method |-> Head(dfTodo).Method,
                                   Position |-> newPosition(StmtPosition(Head(dfTodo).Line)),
                                   InLoop |-> FALSE, InFunction |-> dfFunc])
  /\ dfTodo' = Tail(dfTodo)
  /\ UNCHANGED <<dfBody, dfFunc, dfIssues, dfDone>>
  /\ UNCHANGED <<ctxVars, walkVars, depVars, pureVars>>
  /\ UNCHANGED toolVars

\* Any other node: the callback returns true.
InspectOtherNode ==
  /\ dfTodo # <<>> /\ Head(dfTodo).kind \in {"AssignStmt", "GoStmt"}
  /\ dfTodo' = InspectChildren(Head(dfTodo)) \o Tail(dfTodo)
  /\ UNCHANGED <<dfBody, dfFunc, dfDefers, dfIssues, dfDone>>
  /\ UNCHANGED <<ctxVars, walkVars, depVars, pureVars>>
  /\ UNCHANGED toolVars

\* return analysis, err
DeferPatternsReturn ==
  /\ dfTodo = <<>> /\ ~dfDone
  /\ dfDone' = TRUE
  /\ UNCHANGED <<dfBody, dfTodo, dfFunc, dfDefers, dfIssues>>
  /\ UNCHANGED <<ctxVars, walkVars, depVars, pureVars>>
  /\ UNCHANGED toolVars

\* analyzeDeferPatterns' visitor on a file declaring one function.
InitDefer ==
  /\ CtxIdle
  /\ WalkIdle
  /\ DepsIdle
  /\ PureIdle
  /\ ToolsIdle
  /\ dfBody \in FuncBodies
  /\ dfTodo = <<FuncDecl("f", dfBody)>>
  /\ dfFunc = ""
  /\ dfDefers = <<>>
  /\ dfIssues = <<>>
  /\ dfDone = FALSE

NextDefer ==
  \/ InspectFuncDecl
  \/ InspectFuncLit
  \/ InspectDeferStmt
  \/ InspectOtherNode
  \/ DeferPatternsReturn

SpecDefer == InitDefer /\ [][NextDefer]_vars

\* The statements of the declared function, those of a function literal in it
\* too.
StmtsOfFunc == {InspectAll(dfBody)[k] : k \in 1..Len(InspectAll(dfBody))}

\* How many missing_defer issues name the variable v.
MissingDefers(v) ==
  Cardinality({k \in 1..Len(dfIssues) :
                 dfIssues[k].Type = "missing_defer" /\ dfIssues[k].Description = v})

\* C19 as stated: analyzeDeferPatterns reports one missing_defer issue for each
\* variable that the function assigns from an acquisition call and releases
\* with no deferred Close, Unlock, RUnlock, Done or Release in that function,
\* and none for a variable with such a defer, the acquisition being in a
\* function literal of the function or not.
C19_MissingDeferOnce ==
  dfDone =>
    \A v \in {n.Var : n \in {m \in StmtsOfFunc :
                               m.kind = "AssignStmt" /\ isResourceAcquisition(m.Method)}} :
      MissingDefers(v) =
        IF \E d \in StmtsOfFunc : d.kind = "DeferStmt" /\ extractDeferredResourceVar(d) = v
        THEN 0 ELSE 1

\* ------------------------------------------ topologicalSort and detectCycle

\* A package's dependency list is explored up to this length.
MaxDeps == 2

\* The packages of the graphs explored.
GraphPkgs == {kH, kLib, kMain}

\* The dependency lists a package can have: no package twice, as
\* analyzeInitDependencies builds them from a set.
DepLists ==
  {q \in UNION {[1..n -> GraphPkgs] : n \in 0..MaxDeps} :
     \A i, j \in 1..Len(q) : i # j => q[i] # q[j]}

\* The values of depGraph explored: a dependency list for some of the packages.
Graphs == UNION {[K -> DepLists] : K \in SUBSET GraphPkgs}

\* The packages of a graph: its keys and the packages they depend on.
PkgsOf(graph) ==
  DOMAIN graph \cup UNION {{graph[q][k] : k \in 1..Len(graph[q])} : q \in DOMAIN graph}

\* graph has the edge from a to b.
Edge(graph, a, b) == \E k \in 1..Len(GraphAt(graph, a)) : GraphAt(graph, a)[k] = b

RECURSIVE ReachIn(_, _, _)
\* The packages reached from the set S in one to n steps.
ReachIn(graph, S, n) ==
  IF n = 0 THEN {}
  ELSE LET next == {b \in PkgsOf(graph) : \E a \in S : Edge(graph, a, b)}
       IN  next \cup ReachIn(graph, next, n - 1)

\* The packages reached from a in one step or more.
ReachFrom(graph, a) == ReachIn(graph, {a}, Cardinality(PkgsOf(graph)))

\* A dependency cycle is reachable from start.
CycleReachable(graph, start) ==
  \E c \in ReachFrom(graph, start) \cup {start} : c \in ReachFrom(graph, c)

Acyclic(graph) == \A a \in PkgsOf(graph) : a \notin ReachFrom(graph, a)

CallTopologicalSort ==
  /\ pFn = "topologicalSort" /\ pOut = <<>>
  /\ pOut' = <<topologicalSort(pArg[1])>>
  /\ UNCHANGED <<pFn, pArg>>
  /\ UNCHANGED ctxVars
  /\ UNCHANGED walkVars
  /\ UNCHANGED depVars
  /\ UNCHANGED deferVars
  /\ UNCHANGED toolVars

CallDetectCycle ==
  /\ pFn = "detectCycle" /\ pOut = <<>>
  /\ pOut' = <<detectCycle(pArg[1], pArg[2], {}, <<pArg[1]>>)>>
  /\ UNCHANGED <<pFn, pArg>>
  /\ UNCHANGED ctxVars
  /\ UNCHANGED walkVars
  /\ UNCHANGED depVars
  /\ UNCHANGED deferVars
  /\ UNCHANGED toolVars

\* Where the package q stands in the order.
PlacesOf(order, q) == {i \in 1..Len(order) : order[i] = q}

\* C22 as stated: for an acyclic graph topologicalSort lists every package of
\* the graph exactly once, each package after all the packages it depends on.
C22_InitOrderValid ==
  pFn = "topologicalSort" /\ pOut # <<>> /\ Acyclic(pArg[1]) =>
    /\ \A q \in PkgsOf(pArg[1]) : Cardinality(PlacesOf(pOut[1], q)) = 1
    /\ \A i \in 1..Len(pOut[1]) : pOut[1][i] \in PkgsOf(pArg[1])
    /\ \A a, b \in PkgsOf(pArg[1]) :
         Edge(pArg[1], a, b) =>
           \A i \in PlacesOf(pOut[1], a), j \in PlacesOf(pOut[1], b) : j < i

\* C23: detectCycle(start, graph, {}, [start]) returns on every graph, true
\* exactly when a dependency cycle is reachable from start, and then with a
\* path that begins and ends with the same package and follows edges of the
\* graph.
C23_DetectCycle ==
  pFn = "detectCycle" /\ pOut # <<>> =>
    /\ pOut[1].has <=> CycleReachable(pArg[2], pArg[1])
    /\ pOut[1].has =>
         /\ Len(pOut[1].cycle) >= 2
         /\ pOut[1].cycle[1] = pOut[1].cycle[Len(pOut[1].cycle)]
         /\ \A i \in 1..(Len(pOut[1].cycle) - 1) :
              Edge(pArg[2], pOut[1].cycle[i], pOut[1].cycle[i + 1])
    /\ ~pOut[1].has => pOut[1].cycle = <<>>

\* detectCycle found a cycle that does not pass through the package it started
\* from, by way of the second dependency of that package.
C23_Witness ==
  /\ pFn = "detectCycle" /\ pOut # <<>>
  /\ pOut[1].has
  /\ \A i \in 1..Len(pOut[1].cycle) : pOut[1].cycle[i] # pArg[1]
  /\ Len(GraphAt(pArg[2], pArg[1])) = 2
  /\ pOut[1].cycle[1] = GraphAt(pArg[2], pArg[1])[2]

\* --------------------------------------------------- readRange, writeRange

\* The bytes of the files read and written.
RangeData == UNION {[1..n -> {"x", nl}] : n \in 0..MaxSrcLen}

\* data[lo:hi] of Go, lo and hi counted from 0.
Slice(data, lo, hi) == SubSeq(data, lo + 1, hi)

\* strings.Count(content, "\n")
CountNewlines(content) == Cardinality({i \in 1..Len(content) : content[i] = nl})

RECURSIVE lineColScan(_, _, _, _)
\* The inner loop of lineColToByteRange: for j := i; j < len(data) &&
\* data[j] != '\n'; j++ { i = j }; the value it leaves in i.
lineColScan(data, i, j, n) ==
  IF j < n /\ data[j + 1] # nl THEN lineColScan(data, j, j + 1, n) ELSE i

RECURSIVE lineColLoop(_, _, _, _)
\* The loop of lineColToByteRange from index i on, a the 0-based arguments and
\* st the values of currentLine, currentCol, startByte and endByte.
lineColLoop(data, a, i, st) ==
  IF i >= Len(data) THEN st
  ELSE
    LET s1 == IF st.line = a.startLine /\ st.col = a.startCol /\ st.startByte = -1
              THEN [st EXCEPT !.startByte = i] ELSE st
    IN  IF s1.line = a.endLine /\ a.endCol < 0
        THEN [s1 EXCEPT !.endByte = Min(lineColScan(data, i, i, Len(data)) + 1, Len(data))]
        ELSE IF s1.line = a.endLine /\ s1.col = a.endCol
        THEN [s1 EXCEPT !.endByte = i]
        ELSE IF data[i + 1] = nl /\ s1.line = a.endLine /\ s1.endByte = -1
        THEN [s1 EXCEPT !.endByte = i]
        ELSE LET s2 == IF data[i + 1] = nl
                       THEN [s1 EXCEPT !.line = @ + 1, !.col = 0]
                       ELSE [s1 EXCEPT !.col = @ + 1]
             IN  IF s2.line > a.endLine /\ s2.endByte = -1
                 THEN [s2 EXCEPT !.endByte = i]
                 ELSE lineColLoop(data, a, i + 1, s2)

\* if n > 0 { n-- }: the conversion to 0-based indexing.
zeroBased(n) == IF n > 0 THEN n - 1 ELSE n

\* lineColToByteRange(data, startLine, endLine, startCol, endCol)
lineColToByteRange(data, startLine, endLine, startCol, endCol) ==
  IF Len(data) = 0 THEN [startByte |-> 0, endByte |-> 0, err |-> "nil"]
  ELSE
    LET a  == [startLine |-> zeroBased(startLine), endLine |-> zeroBased(endLine),
               startCol |-> zeroBased(startCol), endCol |-> zeroBased(endCol)]
        st == lineColLoop(data, a, 0,
                          [line |-> 0, col |-> 0, startByte |-> -1, endByte |-> -1])
    IN  IF st.startByte = -1
        THEN [startByte |-> 0, endByte |-> 0, err |-> "start position not found"]
        ELSE [startByte |-> st.startByte,
              endByte |-> IF st.endByte = -1 THEN Len(data) ELSE st.endByte,
              err |-> "nil"]

\* The byte range readRange and writeRange work on and the error they stop
\* with: the conversion from lines and columns when a byte offset is missing,
\* then the validation of the range.
byteRange(data, startLine, endLine, startCol, endCol, startByte, endByte) ==
  LET conv == IF startByte < 0 \/ endByte < 0
              THEN lineColToByteRange(data, startLine, endLine, startCol, endCol)
              ELSE [startByte |-> startByte, endByte |-> endByte, err |-> "nil"]
  IN  IF conv.err # "nil" THEN conv
      ELSE IF conv.startByte < 0 \/ conv.startByte > Len(data)
      THEN [conv EXCEPT !.err = "start byte out of range"]
      ELSE IF conv.endByte < conv.startByte
      THEN [conv EXCEPT !.err = "end byte is before start byte"]
      ELSE [conv EXCEPT !.endByte = Min(@, Len(data))]

\* readRange on a file holding data (os.ReadFile succeeding).
readRange(data, startLine, endLine, startCol, endCol, startByte, endByte) ==
  LET r == byteRange(data, startLine, endLine, startCol, endCol, startByte, endByte)
  IN  IF r.err # "nil" THEN [err |-> r.err, Content |-> <<>>, Lines |-> 0, Bytes |-> 0]
      ELSE LET content == Slice(data, r.startByte, r.endByte)
           IN  [err |-> "nil", Content |-> content,
                Lines |-> CountNewlines(content) + 1, Bytes |-> Len(content)]

\* The arguments of read_range explored: lines and columns (-1 for a column
\* left out), or byte offsets.
ReadRangeArgs ==
  {<<d, sl, el, sc, ec, -1, -1>> :
     d \in RangeData, sl \in 1..3, el \in 1..3, sc \in {-1, 1, 2}, ec \in {-1, 1, 2}}
    \cup {<<d, -1, -1, -1, -1, sb, eb>> :
            d \in RangeData, sb \in 0..(MaxSrcLen + 1), eb \in 0..(MaxSrcLen + 1)}

CallReadRange ==
  /\ pFn = "readRange" /\ pOut = <<>>
  /\ pOut' = <<readRange(pArg[1], pArg[2], pArg[3], pArg[4], pArg[5], pArg[6], pArg[7])>>
  /\ UNCHANGED <<pFn, pArg>>
  /\ UNCHANGED ctxVars
  /\ UNCHANGED walkVars
  /\ UNCHANGED depVars
  /\ UNCHANGED deferVars
  /\ UNCHANGED toolVars

\* C24 as stated: readRange called with start_line and end_line only, in this
\* order and both lines of a file that is not empty, succeeds and returns the
\* text of the lines start_line to end_line (with or without the newline that
\* ends the last of them).
C24_ReadLines ==
  /\ pFn = "readRange" /\ pOut # <<>>
  /\ pArg[1] # <<>>
  /\ pArg[2] <= pArg[3] /\ pArg[3] <= LineCount(pArg[1])
  /\ pArg[4] = -1 /\ pArg[5] = -1 /\ pArg[6] = -1 /\ pArg[7] = -1
  => /\ pOut[1].err = "nil"
     /\ pOut[1].Content \in
          {LinesText(pArg[1], pArg[2], pArg[3]),
           LinesText(pArg[1], pArg[2], pArg[3]) \o <<nl>>}

\* The new bytes writeRange builds without the tail data[endByte:].
spliceNoTail(data, startByte, endByte, content) == Slice(data, 0, startByte) \o content

\* newData: data[:startByte], then content, then data[endByte:].
splice(data, startByte, endByte, content) ==
  Slice(data, 0, startByte) \o content \o Slice(data, endByte, Len(data))

\* writeRange on a file holding data (os.ReadFile and os.WriteFile succeeding):
\* the error or the result it returns and the bytes of the file afterwards.
writeRange(data, content, startLine, endLine, startCol, endCol, startByte, endByte, confirmOld) ==
  LET r == byteRange(data, startLine, endLine, startCol, endCol, startByte, endByte)
  IN  IF r.err # "nil" THEN [err |-> r.err, Success |-> FALSE, file |-> data]
      ELSE IF confirmOld # <<>> /\ Slice(data, r.startByte, r.endByte) # confirmOld
      THEN [err |-> "nil", Success |-> FALSE, file |-> data]
      ELSE [err |-> "nil", Success |-> TRUE,
            file |-> splice(data, r.startByte, r.endByte, content)]

\* The arguments of write_range explored: a byte range, a content that is
\* empty or not, and a confirm_old left out or given.
WriteRangeArgs ==
  {<<d, c, -1, -1, -1, -1, sb, eb, old>> :
     d \in RangeData, c \in {<<>>, <<"y">>},
     sb \in 0..(MaxSrcLen + 1), eb \in 0..(MaxSrcLen + 1),
     old \in {<<>>, <<"x">>, <<"x", nl>>}}

CallWriteRange ==
  /\ pFn = "writeRange" /\ pOut = <<>>
  /\ pOut' = <<writeRange(pArg[1], pArg[2], pArg[3], pArg[4], pArg[5], pArg[6], pArg[7],
                          pArg[8], pArg[9])>>
  /\ UNCHANGED <<pFn, pArg>>
  /\ UNCHANGED ctxVars
  /\ UNCHANGED walkVars
  /\ UNCHANGED depVars
  /\ UNCHANGED deferVars
  /\ UNCHANGED toolVars

\* C25: writeRange on the byte range [s, e) fails and leaves the file as it was
\* when s is beyond the file size or e is before s, and when confirm_old is
\* given and differs from old[s:e]; otherwise it succeeds and the file is
\* old[0:s], then content, then old[e:] (nothing, when e is beyond the end).
C25_WriteRangeFrame ==
  pFn = "writeRange" /\ pOut # <<>> =>
    LET old == pArg[1]
        sb  == pArg[7]
        eb  == pArg[8]
        was == SubSeq(old, sb + 1, Min(eb, Len(old)))
    IN  IF sb > Len(old) \/ eb < sb \/ (pArg[9] # <<>> /\ pArg[9] # was)
        THEN /\ pOut[1].err # "nil" \/ ~pOut[1].Success
             /\ pOut[1].file = old
        ELSE /\ pOut[1].err = "nil" /\ pOut[1].Success
             /\ pOut[1].file = SubSeq(old, 1, sb) \o pArg[2] \o SubSeq(old, eb + 1, Len(old))

\* writeRange replaced a confirmed range in the middle of a file by a content
\* of another length.
C25_Witness ==
  /\ pFn = "writeRange" /\ pOut # <<>>
  /\ pOut[1].Success
  /\ pArg[9] # <<>>
  /\ pArg[7] > 0 /\ pArg[8] < Len(pArg[1])
  /\ Len(pArg[2]) # pArg[8] - pArg[7]

\* ------------------------------------------------------------ goRun, goTest

\* The timeouts explored, in ticks of the clock.
MaxTimeout == 2
\* The exit codes the go command is explored with.
MaxExit == 2

\* What the call finds at path: filepath.Abs fails, os.Stat fails, a directory,
\* a file.
PathStates == {"abs error", "stat error", "dir", "file"}

\* The calls explored: the tool, what is at the path, whether exec finds the go
\* command, and the timeout.
RunCalls ==
  [tool : {"goRun", "goTest"}, path : PathStates, goFound : BOOLEAN,
   timeout : 0..MaxTimeout]

\* A result of goRun or goTest not yet returned.
NoRunResult == <<>>

\* The early return of goRun and goTest: Error and Command only.
earlyResult(error) == [Error |-> error, ExitCode |-> 0, Passed |-> FALSE]

\* ctx.Err(): context.DeadlineExceeded once the timeout has elapsed.
ctxErr(call, clock) == IF clock >= call.timeout THEN "DeadlineExceeded" ELSE "nil"

\* What cmd.Wait returns for the process: nil after exit status 0, otherwise an
\* *exec.ExitError, with ExitCode() -1 for a process ended by a signal.
waitErr(proc) ==
  IF proc.state = "killed" THEN [type |-> "ExitError", code |-> -1]
  ELSE IF proc.exit = 0 THEN [type |-> "nil", code |-> 0]
  ELSE [type |-> "ExitError", code |-> proc.exit]

\* runCommand: exitCode and err from what cmd.Run returned.
runCommand(runErr) ==
  IF runErr.type = "ExitError" THEN [exitCode |-> runErr.code, err |-> "nil"]
  ELSE IF runErr.type = "nil" THEN [exitCode |-> 0, err |-> "nil"]
  ELSE [exitCode |-> 0, err |-> runErr.type]

\* The result goRun and goTest build after runCommand; Passed is goTest's.
runResult(call, runErr, deadline) ==
  LET c == runCommand(runErr)
  IN  [Error    |-> IF c.err = "nil" THEN ""
                    ELSE IF deadline = "DeadlineExceeded" THEN "execution timeout exceeded"
                    ELSE c.err,
       ExitCode |-> c.exitCode,
       Passed   |-> call.tool = "goTest" /\ c.exitCode = 0]

\* filepath.Abs and os.Stat: the early returns.
RunStat ==
  /\ rPc = "called"
  /\ IF rCall.path \in {"abs error", "stat error"}
     THEN rResult' = earlyResult(rCall.path) /\ rPc' = "returned"
     ELSE rPc' = "start" /\ UNCHANGED rResult
  /\ UNCHANGED <<rCall, rClock, rProc, rRunErr>>
  /\ UNCHANGED <<ctxVars, walkVars, depVars, pureVars, deferVars, editVars, searchVars>>

\* Time passes after context.WithTimeout.
RunTick ==
  /\ rPc \in {"start", "wait", "ran"}
  /\ rClock < rCall.timeout
  /\ rClock' = rClock + 1
  /\ UNCHANGED <<rCall, rProc, rRunErr, rPc, rResult>>
  /\ UNCHANGED <<ctxVars, walkVars, depVars, pureVars, deferVars, editVars, searchVars>>

\* cmd.Run starts the command: it returns the context's error when the context
\* is done already, the lookup error when there is no go command, and otherwise
\* waits for the process.
RunStart ==
  /\ rPc = "start"
  /\ IF ctxErr(rCall, rClock) # "nil"
     THEN rRunErr' = [type |-> "context deadline exceeded", code |-> 0] /\ rPc' = "ran"
          /\ UNCHANGED rProc
     ELSE IF ~rCall.goFound
     THEN rRunErr' = [type |-> "executable file not found", code |-> 0] /\ rPc' = "ran"
          /\ UNCHANGED rProc
     ELSE rProc' = [state |-> "running", exit |-> 0] /\ rPc' = "wait" /\ UNCHANGED rRunErr
  /\ UNCHANGED <<rCall, rClock, rResult>>
  /\ UNCHANGED <<ctxVars, walkVars, depVars, pureVars, deferVars, editVars, searchVars>>

\* The go command exits on its own.
RunExits ==
  /\ rPc = "wait" /\ rProc.state = "running"
  /\ \E code \in 0..MaxExit : rProc' = [state |-> "exited", exit |-> code]
  /\ UNCHANGED <<rCall, rClock, rRunErr, rPc, rResult>>
  /\ UNCHANGED <<ctxVars, walkVars, depVars, pureVars, deferVars, editVars, searchVars>>

\* The context is done while the command runs: exec kills the process.
RunKilled ==
  /\ rPc = "wait" /\ rProc.state = "running"
  /\ ctxErr(rCall, rClock) # "nil"
  /\ rProc' = [state |-> "killed", exit |-> 0]
  /\ UNCHANGED <<rCall, rClock, rRunErr, rPc, rResult>>
  /\ UNCHANGED <<ctxVars, walkVars, depVars, pureVars, deferVars, editVars, searchVars>>

\* cmd.Run returns once the process has ended.
RunWaited ==
  /\ rPc = "wait" /\ rProc.state # "running"
  /\ rRunErr' = waitErr(rProc)
  /\ rPc' = "ran"
  /\ UNCHANGED <<rCall, rClock, rProc, rResult>>
  /\ UNCHANGED <<ctxVars, walkVars, depVars, pureVars, deferVars, editVars, searchVars>>

\* runCommand returns and the result is built and returned.
RunReturn ==
  /\ rPc = "ran"
  /\ rResult' = runResult(rCall, rRunErr, ctxErr(rCall, rClock))
  /\ rPc' = "returned"
  /\ UNCHANGED <<rCall, rClock, rProc, rRunErr>>
  /\ UNCHANGED <<ctxVars, walkVars, depVars, pureVars, deferVars, editVars, searchVars>>

\* One call of goRun or goTest.
InitRun ==
  /\ CtxIdle
  /\ WalkIdle
  /\ DepsIdle
  /\ PureIdle
  /\ DeferIdle
  /\ EditIdle
  /\ SearchIdle
  /\ rCall \in RunCalls
  /\ rClock = 0
  /\ rProc = NoProcess
  /\ rRunErr = NotRun
  /\ rPc = "called"
  /\ rResult = NoRunResult

NextRun ==
  \/ RunStat
  \/ RunTick
  \/ RunStart
  \/ RunExits
  \/ RunKilled
  \/ RunWaited
  \/ RunReturn

SpecRun == InitRun /\ [][NextRun]_vars

\* C26 as stated: when the command goRun or goTest started was still running
\* at the timeout and was killed, the result carries the Error "execution
\* timeout exceeded".
C26_TimeoutReported ==
  rPc = "returned" /\ rProc.state = "killed" => rResult.Error = "execution timeout exceeded"

\* C30 as stated: goTest's result has Passed true only when the go test process
\* ran and exited with status 0, and Passed false whenever its Error is not
\* empty.
C30_PassedMeansExitZero ==
  rPc = "returned" /\ rCall.tool = "goTest" =>
    /\ rResult.Passed => rProc.state = "exited" /\ rProc.exit = 0
    /\ rResult.Error # "" => ~rResult.Passed

\* ------------------------------------------------------------ findDeadCode

\* A file is explored with up to this many identifiers.
MaxIdents == 3

\* The names of the identifiers: two unexported ones, the blank one, an
\* exported one.
IdentNames == {<<"v">>, <<"w">>, <<"_">>, <<"X">>}

\* The identifiers of a file in the order ast.Inspect reaches them: a name of
\* a var declaration's ValueSpec, or any other identifier.
IdentLists ==
  UNION {[1..n -> [kind : {"VarName", "Ident"}, name : IdentNames]] : n \in 0..MaxIdents}

\* The keys of declaredVars after the first pass.
declaredVars(idents) ==
  {idents[k].name : k \in {k \in 1..Len(idents) :
                             /\ idents[k].kind = "VarName"
                             /\ idents[k].name # <<"_">>
                             /\ ~IsExported(idents[k].name)}}

\* The keys of usedVars after the second pass: the name of every *ast.Ident of
\* the file, the names of the declarations among them.
usedVars(idents) == {idents[k].name : k \in 1..Len(idents)}

\* The names of info.UnusedVars for a file, declaredVars ranged over in the
\* order given.
unusedVars(path, idents, order) ==
  IF HasSuffix(path, kTestGo) THEN <<>>
  ELSE SelectSeq(order, LAMBDA v : v \notin usedVars(idents))

CallFindDeadCode ==
  /\ pFn = "findDeadCode" /\ pOut = <<>>
  /\ \E order \in RangeOrders(declaredVars(pArg[2])) :
       pOut' = <<unusedVars(pArg[1], pArg[2], order)>>
  /\ UNCHANGED <<pFn, pArg>>
  /\ UNCHANGED ctxVars
  /\ UNCHANGED walkVars
  /\ UNCHANGED depVars
  /\ UNCHANGED deferVars
  /\ UNCHANGED toolVars

\* C27 as stated: for a file that is no test file, UnusedVars lists every
\* unexported, non-blank variable declared with var whose name no other
\* identifier of the file bears, and no variable whose name another identifier
\* bears.
C27_UnusedVarsListed ==
  pFn = "findDeadCode" /\ pOut # <<>> /\ ~HasSuffix(pArg[1], kTestGo) =>
    \A k \in 1..Len(pArg[2]) :
      LET id == pArg[2][k]
      IN  id.kind = "VarName" /\ id.name # <<"_">> /\ ~IsExported(id.name) =>
            ((\E i \in 1..Len(pOut[1]) : pOut[1][i] = id.name)
               <=> ~\E j \in 1..Len(pArg[2]) :
                      pArg[2][j].kind = "Ident" /\ pArg[2][j].name = id.name)

\* ------------------------------------------- writeRange beside another edit

\* The calls that edit the file.
Editors == {1, 2}

RECURSIVE ReplaceAll(_, _, _)
\* strings.ReplaceAll(text, old, new) for a non-empty old.
ReplaceAll(text, old, new) ==
  IF Len(text) < Len(old) THEN text
  ELSE IF SubSeq(text, 1, Len(old)) = old
  THEN new \o ReplaceAll(SubSeq(text, Len(old) + 1, Len(text)), old, new)
  ELSE <<Head(text)>> \o ReplaceAll(Tail(text), old, new)

\* The write_range calls explored: a byte range at the start of the file, with
\* and without confirm_old.
WriteRangeCalls ==
  [kind : {"writeRange"}, content : {<<"y">>}, startByte : {0, 1}, endByte : {1, 2},
   confirmOld : {<<>>, <<"x">>}, pattern : {<<>>}]

\* The search_replace calls explored: every x replaced or deleted.
ProcessFileCalls ==
  [kind : {"processFile"}, content : {<<>>, <<"y">>}, startByte : {0}, endByte : {0},
   confirmOld : {<<>>}, pattern : {<<"x">>}]

\* What the call makes of the bytes it read: whether it writes, and what.
editOf(call, data) ==
  IF call.kind = "writeRange"
  THEN LET r == writeRange(data, call.content, -1, -1, -1, -1, call.startByte,
                           call.endByte, call.confirmOld)
       IN  [Success |-> r.err = "nil" /\ r.Success, file |-> r.file]
  ELSE [Success |-> Contains(data, call.pattern),
        file |-> ReplaceAll(data, call.pattern, call.content)]

\* data, err := os.ReadFile(file)
EditRead(p) ==
  /\ ePc[p] = "called"
  /\ eData' = [eData EXCEPT ![p] = eFile]
  /\ ePc' = [ePc EXCEPT ![p] = "read"]
  /\ UNCHANGED <<eFile, eArgs, eRes>>
  /\ UNCHANGED <<ctxVars, walkVars, depVars, pureVars, deferVars, runVars, searchVars>>

\* The rest of the call: the range validated and confirmed, or the matches
\* counted, on the bytes read; then os.WriteFile of the new bytes, or the
\* return without writing.
EditWrite(p) ==
  /\ ePc[p] = "read"
  /\ eRes' = [eRes EXCEPT ![p] = [Success |-> editOf(eArgs[p], eData[p]).Success]]
  /\ eFile' = IF editOf(eArgs[p], eData[p]).Success
              THEN editOf(eArgs[p], eData[p]).file ELSE eFile
  /\ ePc' = [ePc EXCEPT ![p] = "done"]
  /\ UNCHANGED <<eArgs, eData>>
  /\ UNCHANGED <<ctxVars, walkVars, depVars, pureVars, deferVars, runVars, searchVars>>

\* A writeRange call and another writeRange or searchReplace call on the same
\* file, arriving together.
InitEdit ==
  /\ CtxIdle
  /\ WalkIdle
  /\ DepsIdle
  /\ PureIdle
  /\ DeferIdle
  /\ RunIdle
  /\ SearchIdle
  /\ eFile \in RangeData
  /\ eArgs \in [Editors -> WriteRangeCalls \cup ProcessFileCalls]
  /\ eArgs[1].kind = "writeRange"
  /\ ePc = [p \in Editors |-> "called"]
  /\ eData = [p \in Editors |-> <<>>]
  /\ eRes = [p \in Editors |-> [Success |-> FALSE]]

NextEdit ==
  \/ \E p \in Editors : EditRead(p)
  \/ \E p \in Editors : EditWrite(p)

SpecEdit == InitEdit /\ [][NextEdit]_vars

\* The call p writes the file in this step.
Writes(p) == ePc[p] = "read" /\ ePc'[p] = "done" /\ eRes'[p].Success

\* C28 as stated: a writeRange call given confirm_old replaces the range only
\* if the range holds confirm_old when the file is written, whatever another
\* writeRange or searchReplace call does to the file meanwhile: its write lands
\* on the file as the call read and checked it, so that the other call's edit
\* is not lost.
C28_ConfirmedAtWrite ==
  [][\A p \in Editors :
       Writes(p) /\ eArgs[p].kind = "writeRange" /\ eArgs[p].confirmOld # <<>> =>
         /\ Slice(eFile, eArgs[p].startByte, Min(eArgs[p].endByte, Len(eFile)))
              = eArgs[p].confirmOld
         /\ eFile = eData[p]]_vars

\* --------------------------------------------- searchReplace: the literal scan

\* strings.Index(s, substr): the first place substr stands in s, 0 for the
\* empty substr, -1 when it stands nowhere.
stringsIndex(s, substr) ==
  LET at == {i \in 0..(Len(s) - Len(substr)) : SubSeq(s, i + 1, i + Len(substr)) = substr}
  IN  IF at = {} THEN -1 ELSE CHOOSE i \in at : \A j \in at : i <= j

\* The file contents scanned.
ScanTexts == UNION {[1..n -> {"x", "X"}] : n \in 0..MaxSrcLen}

\* The patterns scanned for; the empty pattern is among them.
ScanPatterns == {<<>>, <<"x">>, <<"X">>, <<"x", "X">>}

\* The literal scans explored: searchFunc with and without case_insensitive,
\* and caseInsensitiveReplace, which replaceFunc calls under case_insensitive.
ScanCalls ==
  [fn : {"searchFunc"}, text : ScanTexts, pattern : ScanPatterns, new : {<<>>},
   caseInsensitive : BOOLEAN]
    \cup
  [fn : {"caseInsensitiveReplace"}, text : ScanTexts, pattern : ScanPatterns,
   new : {<<>>, <<"y">>}, caseInsensitive : {TRUE}]

\* searchText and lowerText: the text the loop searches.
scanText(call) == IF call.caseInsensitive THEN ToLower(call.text) ELSE call.text

\* searchPattern and lowerOld: the pattern the loop searches for.
scanPattern(call) == IF call.caseInsensitive THEN ToLower(call.pattern) ELSE call.pattern

\* idx := strings.Index(searchText[start:], searchPattern)
scanIdx(call, start) == stringsIndex(SubSeq(scanText(call), start + 1, Len(call.text)), scanPattern(call))

\* One turn of the loop of searchFunc that finds a match: the match appended,
\* start = realIdx + len(pattern). The loop is followed while it has appended
\* no more matches than a text of MaxSrcLen bytes has places.
SearchFuncMatch ==
  /\ sPc = "scan"
  /\ sArgs.fn = "searchFunc"
  /\ Len(sOut) <= MaxSrcLen
  /\ scanIdx(sArgs, sStart) >= 0
  /\ LET realIdx == sStart + scanIdx(sArgs, sStart)
     IN  /\ sOut' = Append(sOut, <<realIdx, realIdx + Len(sArgs.pattern)>>)
         /\ sStart' = realIdx + Len(sArgs.pattern)
  /\ UNCHANGED <<sArgs, sPc>>
  /\ UNCHANGED <<ctxVars, walkVars, depVars, pureVars, deferVars, runVars, editVars>>

\* if idx < 0 { break }; return matches
SearchFuncBreak ==
  /\ sPc = "scan"
  /\ sArgs.fn = "searchFunc"
  /\ scanIdx(sArgs, sStart) < 0
  /\ sPc' = "done"
  /\ UNCHANGED <<sArgs, sStart, sOut>>
  /\ UNCHANGED <<ctxVars, walkVars, depVars, pureVars, deferVars, runVars, editVars>>

\* One turn of the loop of caseInsensitiveReplace that finds a match: the text
\* before the match and new written, start = realIdx + len(old). The loop is
\* followed while it has written no more than MaxSrcLen bytes.
ReplaceMatch ==
  /\ sPc = "scan"
  /\ sArgs.fn = "caseInsensitiveReplace"
  /\ Len(sOut) <= MaxSrcLen
  /\ scanIdx(sArgs, sStart) >= 0
  /\ LET realIdx == sStart + scanIdx(sArgs, sStart)
     IN  /\ sOut' = sOut \o SubSeq(sArgs.text, sStart + 1, realIdx) \o sArgs.new
         /\ sStart' = realIdx + Len(sArgs.pattern)
  /\ UNCHANGED <<sArgs, sPc>>
  /\ UNCHANGED <<ctxVars, walkVars, depVars, pureVars, deferVars, runVars, editVars>>

\* if idx < 0 { result.WriteString(text[start:]); break }; return result.String()
ReplaceBreak ==
  /\ sPc = "scan"
  /\ sArgs.fn = "caseInsensitiveReplace"
  /\ scanIdx(sArgs, sStart) < 0
  /\ sOut' = sOut \o SubSeq(sArgs.text, sStart + 1, Len(sArgs.text))
  /\ sPc' = "done"
  /\ UNCHANGED <<sArgs, sStart>>
  /\ UNCHANGED <<ctxVars, walkVars, depVars, pureVars, deferVars, runVars, editVars>>

\* A literal scan of one file's content, at start := 0.
InitSearch ==
  /\ CtxIdle
  /\ WalkIdle
  /\ DepsIdle
  /\ PureIdle
  /\ DeferIdle
  /\ RunIdle
  /\ EditIdle
  /\ sArgs \in ScanCalls
  /\ sStart = 0
  /\ sOut = <<>>
  /\ sPc = "scan"

NextSearch ==
  \/ SearchFuncMatch
  \/ SearchFuncBreak
  \/ ReplaceMatch
  \/ ReplaceBreak

SpecSearch == InitSearch /\ [][NextSearch]_vars

\* C29 as stated: the literal scan and caseInsensitiveReplace advance past each
\* match they find, for every pattern, the empty one included: a turn of the
\* loop that finds a match leaves start further on than it was, so that the
\* loop ends after at most as many turns as the text has bytes.
C29_ScanAdvances ==
  [][sPc = "scan" /\ sPc' = "scan" => sStart' > sStart /\ sStart' <= Len(sArgs.text)]_vars

\* Every helper on every argument.
InitPure ==
  /\ CtxIdle
  /\ WalkIdle
  /\ DepsIdle
  /\ DeferIdle
  /\ ToolsIdle
  /\ pOut = <<>>
  /\ \/ pFn = "exprToString" /\ pArg \in Exprs
     \/ pFn = "funcSignature" /\ pArg \in {e \in Exprs : e.kind = "FuncType"}
     \/ pFn = "fieldListToString" /\ pArg \in FieldLists
     \/ pFn = "matchesPattern" /\ pArg \in MatchNames \X MatchPatterns
     \/ pFn = "containsNode" /\ pArg \in AstNodes \X AstNodes
     \/ pFn = "isInLoop" /\ pArg \in {<<n>> : n \in AstNodes}
     \/ pFn = "isErrorCheck" /\ pArg \in IfStmts
     \/ pFn = "topologicalSort" /\ pArg \in {<<g>> : g \in Graphs}
     \/ pFn = "detectCycle" /\ pArg \in GraphPkgs \X Graphs
     \/ pFn = "readRange" /\ pArg \in ReadRangeArgs
     \/ pFn = "writeRange" /\ pArg \in WriteRangeArgs
     \/ pFn = "findDeadCode"
          /\ pArg \in {PathOf(<<nRoot, nA>>), PathOf(<<nRoot, nTTest>>)} \X IdentLists

NextPure ==
  \/ CallExprToString
  \/ CallFuncSignature
  \/ CallFieldListToString
  \/ CallMatchesPattern
  \/ CallContainsNode
  \/ CallIsInLoop
  \/ CallIsErrorCheck
  \/ CallTopologicalSort
  \/ CallDetectCycle
  \/ CallReadRange
  \/ CallWriteRange
  \/ CallFindDeadCode

SpecPure == InitPure /\ [][NextPure]_vars

====
